---- MODULE Spec2Model ----
(***************************************************************************)
(* Scripts of bio-playground, each as a state machine of its own:          *)
(*   Spec        region-binning/region_binning.py, one call at a time      *)
(*   SpecThreads the same functions called by several callers at once      *)
(*   SpecBed     region-binning/bed_binning.py, main                       *)
(*   SpecSync    sync-paired-end-reads, sync_paired_end_reads              *)
(*   SpecParts   seattle-seq-annotation, create_parts                      *)
(*   SpecWait    seattle-seq-annotation, wait_for_result and its caller    *)
(*   SpecWig     coverage-wiggle-to-bed, write_bed                         *)
(*   SpecPileup  pileup-coverage, calculate_coverage                       *)
(*   SpecBam     bam-to-fastq, process_bam                                 *)
(*                                                                         *)
(* All genomic positions are one-based and inclusive.  Python integers are *)
(* unbounded; every value computed here stays below 2^31.                  *)
(***************************************************************************)
EXTENDS Integers, Sequences, FiniteSets, TLC

\* One call at a time: the function called, its arguments and its outcome.
VARIABLES op, args, result

\* Several callers at once: the module's globals as the interpreter holds
\* them, and each caller's call frame.
VARIABLES module, threads

\* region-binning/bed_binning.py: the lines of the BED file, how many of
\* them are read, what is printed to standard output and standard error,
\* and where main is ("reading" or "exited", with the exit status).
VARIABLES bed_lines, bed_pos, stdout, stderr, bed_pc, exit_status

\* sync_paired_end_reads: the three inputs, how far each has been read, the
\* current records (a and b in the source), the two outputs and the counts.
VARIABLES original, reads_a, reads_b, headers_done, read_a, read_b,
          record_a, record_b,
          synced_a, synced_b, filtered_a, filtered_b, kept, sync_pc

\* create_parts: the lines of the VCF file, how many of them are read, the
\* header collected, the variants written to each part, the line count, and
\* where the function is, with the fatal error it printed if any.
VARIABLES vcf, vcf_pos, header, part_files, line_count, parts_pc, fatal

\* seattle_seq_annotation and wait_for_result: the polls each submitted part
\* needs, the part waited for, waiting in the caller and in the callee, the
\* polls made in the call, the seconds slept in all, where the program is and
\* the fatal error it printed if any.
VARIABLES jobs, part_no, waiting, callee_waiting, polls, slept, wait_pc,
          wait_fatal

\* write_bed: the lines of the Wiggle track, how many of them are read, the
\* locals of write_bed, the lines written to bed and where the function is.
VARIABLES wig, wig_pos, in_region, previous_position, region_start,
          region_end, chrom, bed, wig_pc

\* calculate_coverage: the lines of the pileup file, how many of them are
\* read, the arguments and locals, the object printed and where the
\* function is.
VARIABLES pileup, pileup_pos, first_position, last_position, pileup_position,
          total_coverage, minimum_coverage, maximum_coverage,
          grouped_coverage, coverage_json, pileup_pc

\* process_bam: the reads of the BAM file, how many of them are read, the
\* locals (qname stands for name), the reads written to the two FASTQ
\* files, the sync_pairs argument and where the function is.
VARIABLES bam, bam_pos, qname, read_left, read_right, left_file, right_file,
          sync_pairs, bam_pc

binningVars == <<op, args, result>>

threadVars == <<module, threads>>

bedVars == <<bed_lines, bed_pos, stdout, stderr, bed_pc, exit_status>>

syncVars ==
    <<original, reads_a, reads_b, headers_done, read_a, read_b,
      record_a, record_b,
      synced_a, synced_b, filtered_a, filtered_b, kept, sync_pc>>

partsVars == <<vcf, vcf_pos, header, part_files, line_count, parts_pc, fatal>>

waitVars ==
    <<jobs, part_no, waiting, callee_waiting, polls, slept, wait_pc,
      wait_fatal>>

wigVars ==
    <<wig, wig_pos, in_region, previous_position, region_start, region_end,
      chrom, bed, wig_pc>>

pileupVars ==
    <<pileup, pileup_pos, first_position, last_position, pileup_position,
      total_coverage, minimum_coverage, maximum_coverage, grouped_coverage,
      coverage_json, pileup_pc>>

bamVars ==
    <<bam, bam_pos, qname, read_left, read_right, left_file, right_file,
      sync_pairs, bam_pc>>

vars ==
    <<binningVars, threadVars, bedVars, syncVars, partsVars, waitVars,
      wigVars, pileupVars, bamVars>>

\* The variables of the other programs, which a step of one leaves alone.
notBinning ==
    <<threadVars, bedVars, syncVars, partsVars, waitVars, wigVars,
      pileupVars, bamVars>>

notThreads ==
    <<binningVars, bedVars, syncVars, partsVars, waitVars, wigVars,
      pileupVars, bamVars>>

notBed ==
    <<binningVars, threadVars, syncVars, partsVars, waitVars, wigVars,
      pileupVars, bamVars>>

notSync ==
    <<binningVars, threadVars, bedVars, partsVars, waitVars, wigVars,
      pileupVars, bamVars>>

notParts ==
    <<binningVars, threadVars, bedVars, syncVars, waitVars, wigVars,
      pileupVars, bamVars>>

notWait ==
    <<binningVars, threadVars, bedVars, syncVars, partsVars, wigVars,
      pileupVars, bamVars>>

notWig ==
    <<binningVars, threadVars, bedVars, syncVars, partsVars, waitVars,
      pileupVars, bamVars>>

notPileup ==
    <<binningVars, threadVars, bedVars, syncVars, partsVars, waitVars,
      wigVars, bamVars>>

notBam ==
    <<binningVars, threadVars, bedVars, syncVars, partsVars, waitVars,
      wigVars, pileupVars>>

----------------------------------------------------------------------------
(* Python values *)

\* An optional value: None is the empty tuple, a present value x is <<x>>.
None == <<>>

Some(x) == <<x>>

\* The outcome of a call: a returned value or a raised exception.
Return(v) == [exc |-> "none", val |-> v]

Raise(e) == [exc |-> e, val |-> None]

\* x >> n and x << n on Python integers (>> floors, also for negative x).
Shr(x, n) == x \div (2 ^ n)

Shl(x, n) == x * (2 ^ n)

\* range(a, b): the list a, a+1, ..., b-1 (empty when b <= a).
range(a, b) == IF b > a THEN [i \in 1..(b - a) |-> a + i - 1] ELSE <<>>

----------------------------------------------------------------------------
(* Module constants, region_binning.py lines 22-26 *)

\* The offsets without the root level: four levels only.
BIN_OFFSETS_without_root == <<512 + 64 + 8 + 1, 64 + 8 + 1, 8 + 1, 1>>

\* The offsets with the "+ 1" of the root bin left out of every sum.
BIN_OFFSETS_without_one == <<512 + 64 + 8, 64 + 8, 8, 1, 0>>

BIN_OFFSETS == <<512 + 64 + 8 + 1, 64 + 8 + 1, 8 + 1, 1, 0>>

SHIFT_FIRST == 17

SHIFT_NEXT == 3

\* A limit one bit beyond what the shifts of the five levels collapse.
MAX_POSITION_extended == 2 ^ 30

MAX_POSITION == 2 ^ 29

MAX_BIN == BIN_OFFSETS[1] + Shr(MAX_POSITION - 1, SHIFT_FIRST)

----------------------------------------------------------------------------
(* range_per_level, lines 37-82 *)

\* A loop that shifts the bins only once, before the first level.
RECURSIVE yield_levels_unshifted(_, _, _)
yield_levels_unshifted(offsets, start_bin, end_bin) ==
    IF offsets = <<>> THEN <<>>
    ELSE <<  <<Head(offsets) + start_bin, Head(offsets) + end_bin>>  >>
         \o yield_levels_unshifted(Tail(offsets), start_bin, end_bin)

\* The loop of the generator (lines 79-82): one pair per offset, in the
\* order of BIN_OFFSETS, both bins shifted by SHIFT_NEXT after each yield.
RECURSIVE yield_levels(_, _, _)
yield_levels(offsets, start_bin, end_bin) ==
    IF offsets = <<>> THEN <<>>
    ELSE <<  <<Head(offsets) + start_bin, Head(offsets) + end_bin>>  >>
         \o yield_levels(Tail(offsets),
                         Shr(start_bin, SHIFT_NEXT),
                         Shr(end_bin, SHIFT_NEXT))

\* range_per_level that forgets to swap start > end.
range_per_level_unswapped(start, end) ==
    IF start < 1 \/ end > MAX_POSITION
    THEN Raise("OutOfRangeError")
    ELSE Return(yield_levels(BIN_OFFSETS,
                             Shr(start - 1, SHIFT_FIRST),
                             Shr(end - 1, SHIFT_FIRST)))

\* range_per_level that accepts position 0 (a zero-based lower limit).
range_per_level_from_zero(start, end) ==
    LET s == IF start > end THEN end ELSE start
        e == IF start > end THEN start ELSE end
    IN  IF s < 0 \/ e > MAX_POSITION
        THEN Raise("OutOfRangeError")
        ELSE Return(yield_levels(BIN_OFFSETS,
                                 Shr(s - 1, SHIFT_FIRST),
                                 Shr(e - 1, SHIFT_FIRST)))

\* The iterator drained: the list of the pairs it yields, or the exception
\* raised when it is first advanced.
range_per_level(start, end) ==
    LET s == IF start > end THEN end ELSE start
        e == IF start > end THEN start ELSE end
    IN  IF s < 1 \/ e > MAX_POSITION
        THEN Raise("OutOfRangeError")
        ELSE Return(yield_levels(BIN_OFFSETS,
                                 Shr(s - 1, SHIFT_FIRST),
                                 Shr(e - 1, SHIFT_FIRST)))

----------------------------------------------------------------------------
(* assign_bin, lines 85-105 *)

\* itertools.dropwhile(lambda (x, y): x != y, pairs)
RECURSIVE dropwhile_unequal(_)
dropwhile_unequal(pairs) ==
    IF pairs = <<>> THEN <<>>
    ELSE IF Head(pairs)[1] # Head(pairs)[2]
         THEN dropwhile_unequal(Tail(pairs))
         ELSE pairs

\* assign_bin that also drops the first pair with equal bins.
assign_bin_next_level(start, end) ==
    LET levels == range_per_level(start, end)
        rest == Tail(dropwhile_unequal(levels.val))
    IN  IF levels.exc # "none" THEN levels
        ELSE IF rest = <<>> THEN Raise("Exception")
        ELSE Return(rest[1][1])

\* OutOfRangeError passes through the try; only StopIteration (nothing left
\* after dropwhile) becomes the generic Exception.
assign_bin(start, end) ==
    LET levels == range_per_level(start, end)
        rest == dropwhile_unequal(levels.val)
    IN  IF levels.exc # "none" THEN levels
        ELSE IF rest = <<>> THEN Raise("Exception")
        ELSE Return(rest[1][1])

----------------------------------------------------------------------------
(* all_bins, lines 108-134 *)

\* The same with range(first, last): the last bin of each level is lost.
RECURSIVE bins_of_levels_open(_)
bins_of_levels_open(pairs) ==
    IF pairs = <<>> THEN <<>>
    ELSE range(Head(pairs)[1], Head(pairs)[2])
         \o bins_of_levels_open(Tail(pairs))

\* The same with the coarsest level first.
RECURSIVE bins_of_levels_coarsest_first(_)
bins_of_levels_coarsest_first(pairs) ==
    IF pairs = <<>> THEN <<>>
    ELSE bins_of_levels_coarsest_first(Tail(pairs))
         \o range(Head(pairs)[1], Head(pairs)[2] + 1)

\* The bins of the pairs, level after level: range(first, last + 1) each.
RECURSIVE bins_of_levels(_)
bins_of_levels(pairs) ==
    IF pairs = <<>> THEN <<>>
    ELSE range(Head(pairs)[1], Head(pairs)[2] + 1)
         \o bins_of_levels(Tail(pairs))

\* all_bins that lists the bins of the finest level only.
all_bins_finest(start, end) ==
    LET e == IF end = None \/ end = Some(0) THEN start ELSE end[1]
        levels == range_per_level(start, e)
    IN  IF levels.exc # "none" THEN levels
        ELSE Return(bins_of_levels(<<levels.val[1]>>))

\* end is optional (None when not given); "not end" holds for None and for 0.
all_bins(start, end) ==
    LET e == IF end = None \/ end = Some(0) THEN start ELSE end[1]
        levels == range_per_level(start, e)
    IN  IF levels.exc # "none" THEN levels
        ELSE Return(bins_of_levels(levels.val))

----------------------------------------------------------------------------
(* covered_region, lines 137-162 *)

\* The scan with "offset < bin": the first bin of a level goes one level up.
RECURSIVE scan_offsets_strict(_, _, _)
scan_offsets_strict(offsets, shift, bin) ==
    IF offsets = <<>> THEN Return(None)
    ELSE IF Head(offsets) < bin
         THEN Return(<<Shl(bin - Head(offsets), shift) + 1,
                       Shl(bin + 1 - Head(offsets), shift)>>)
         ELSE scan_offsets_strict(Tail(offsets), shift + SHIFT_NEXT, bin)

\* The scan with zero-based starts: the "+ 1" of the start is left out.
RECURSIVE scan_offsets_zero_based(_, _, _)
scan_offsets_zero_based(offsets, shift, bin) ==
    IF offsets = <<>> THEN Return(None)
    ELSE IF Head(offsets) <= bin
         THEN Return(<<Shl(bin - Head(offsets), shift),
                       Shl(bin + 1 - Head(offsets), shift)>>)
         ELSE scan_offsets_zero_based(Tail(offsets), shift + SHIFT_NEXT, bin)

\* The scan that never widens the shift.
RECURSIVE scan_offsets_fixed_shift(_, _, _)
scan_offsets_fixed_shift(offsets, shift, bin) ==
    IF offsets = <<>> THEN Return(None)
    ELSE IF Head(offsets) <= bin
         THEN Return(<<Shl(bin - Head(offsets), shift) + 1,
                       Shl(bin + 1 - Head(offsets), shift)>>)
         ELSE scan_offsets_fixed_shift(Tail(offsets), shift, bin)

\* The loop of lines 158-162; falling off its end returns None.
RECURSIVE scan_offsets(_, _, _)
scan_offsets(offsets, shift, bin) ==
    IF offsets = <<>> THEN Return(None)
    ELSE IF Head(offsets) <= bin
         THEN Return(<<Shl(bin - Head(offsets), shift) + 1,
                       Shl(bin + 1 - Head(offsets), shift)>>)
         ELSE scan_offsets(Tail(offsets), shift + SHIFT_NEXT, bin)

covered_region(bin) ==
    IF bin < 0 \/ bin > MAX_BIN
    THEN Raise("OutOfRangeError")
    ELSE scan_offsets(BIN_OFFSETS, SHIFT_FIRST, bin)

----------------------------------------------------------------------------
(* The client: the arguments it calls the functions with *)

Levels == 1..Len(BIN_OFFSETS)

\* The number of positions in one bin of level i (level 1 is the finest).
BinSize(i) == 2 ^ (SHIFT_FIRST + SHIFT_NEXT * (i - 1))

\* How many bins of each level, counted from position 0, have their
\* boundaries among the positions.
MaxMult == 2

Boundaries ==
    {0, MAX_POSITION} \cup {k * BinSize(i) : k \in 1..MaxMult, i \in Levels}

\* The positions at and next to a boundary, and the two of the examples;
\* they include -1, 0 and MAX_POSITION + 1, which are out of range.
Positions ==
    {b + d : b \in Boundaries, d \in {-1, 0, 1}} \cup {100000, 100005}

\* Every bin number, and one too small and one too large.
BinNumbers == -1..(MAX_BIN + 1)

----------------------------------------------------------------------------
(* The functions step by step, as interleaved callers run them *)

\* The module's globals, lines 22-26, as a caller reads them at run time.
ModuleConstants ==
    [BIN_OFFSETS |-> BIN_OFFSETS, SHIFT_FIRST |-> SHIFT_FIRST,
     SHIFT_NEXT |-> SHIFT_NEXT, MAX_POSITION |-> MAX_POSITION,
     MAX_BIN |-> MAX_BIN]

\* The frame of a generator: its arguments, its locals and the index of the
\* list iterator of "for offset in BIN_OFFSETS".  Calling range_per_level
\* only makes the frame; nothing runs before the first next().
new_generator(start, end) ==
    [state |-> "created", start |-> start, end |-> end,
     start_bin |-> 0, end_bin |-> 0, i |-> 0]

\* What one next() gives: the generator afterwards, the pair yielded or the
\* exception raised, and the module's globals afterwards.
Yielded(gen, pair, m) ==
    [gen |-> gen, exc |-> "none", val |-> pair, module |-> m]

Raised(gen, e, m) ==
    [gen |-> [gen EXCEPT !.state = "finished"], exc |-> e, val |-> None,
     module |-> m]

\* The loop head of line 79 with the bins as they are now: the next offset
\* is yielded, or the list is used up and the generator returns.
loop_head(gen, start_bin, end_bin, m) ==
    IF gen.i + 1 > Len(m.BIN_OFFSETS)
    THEN Raised(gen, "StopIteration", m)
    ELSE Yielded([gen EXCEPT !.state = "suspended", !.i = gen.i + 1,
                             !.start_bin = start_bin, !.end_bin = end_bin],
                 <<m.BIN_OFFSETS[gen.i + 1] + start_bin,
                   m.BIN_OFFSETS[gen.i + 1] + end_bin>>,
                 m)

\* A generator that keeps no index of its own: it takes the first offset
\* off the module's list.
generator_next_popping(gen, m) ==
    LET s == IF gen.start > gen.end THEN gen.end ELSE gen.start
        e == IF gen.start > gen.end THEN gen.start ELSE gen.end
        sb == IF gen.state = "created" THEN Shr(s - 1, m.SHIFT_FIRST)
              ELSE Shr(gen.start_bin, m.SHIFT_NEXT)
        eb == IF gen.state = "created" THEN Shr(e - 1, m.SHIFT_FIRST)
              ELSE Shr(gen.end_bin, m.SHIFT_NEXT)
    IN  IF gen.state = "finished" THEN Raised(gen, "StopIteration", m)
        ELSE IF gen.state = "created" /\ (s < 1 \/ e > m.MAX_POSITION)
        THEN Raised(gen, "OutOfRangeError", m)
        ELSE IF m.BIN_OFFSETS = <<>> THEN Raised(gen, "StopIteration", m)
        ELSE Yielded([gen EXCEPT !.state = "suspended", !.i = gen.i + 1,
                                 !.start_bin = sb, !.end_bin = eb],
                     <<Head(m.BIN_OFFSETS) + sb, Head(m.BIN_OFFSETS) + eb>>,
                     [m EXCEPT !.BIN_OFFSETS = Tail(m.BIN_OFFSETS)])

\* One next() on a generator of range_per_level: from its creation to the
\* first yield (lines 65-80), or from one yield to the next (lines 81-82 and
\* 79-80), or to the end of the loop.
generator_next(gen, m) ==
    LET s == IF gen.start > gen.end THEN gen.end ELSE gen.start
        e == IF gen.start > gen.end THEN gen.start ELSE gen.end
    IN  IF gen.state = "finished" THEN Raised(gen, "StopIteration", m)
        ELSE IF gen.state = "created"
        THEN IF s < 1 \/ e > m.MAX_POSITION
             THEN Raised(gen, "OutOfRangeError", m)
             ELSE loop_head(gen, Shr(s - 1, m.SHIFT_FIRST),
                            Shr(e - 1, m.SHIFT_FIRST), m)
        ELSE loop_head(gen, Shr(gen.start_bin, m.SHIFT_NEXT),
                       Shr(gen.end_bin, m.SHIFT_NEXT), m)

\* The callers, and what they call the functions with.
NumCallers == 2

Callers == 1..NumCallers

\* A region in one bin, one over two bins of the finest level, the same
\* reversed, and one that is out of range.
CallerRegions ==
    {<<100000, 100005>>, <<BinSize(1), BinSize(1) + 1>>,
     <<BinSize(1) + 1, BinSize(1)>>, <<0, 1>>}

\* A bin of the finest level, one of the third level, and an invalid one.
CallerBins == {BIN_OFFSETS[1], BIN_OFFSETS[3], -1}

\* A caller that is in no call.
IdleFrame ==
    [op |-> "idle", args |-> <<>>, pc |-> "idle",
     gen |-> new_generator(0, 0), shift |-> 0, i |-> 0,
     acc |-> <<>>, out |-> Return(None)]

ThreadsIdle ==
    /\ module = ModuleConstants
    /\ threads = [c \in Callers |-> IdleFrame]

\* A caller enters one of the functions of the region; the generator is
\* made (all_bins is given both arguments, so "end" stays as it is).
ThreadCallOnRegion(c) ==
    /\ threads[c].pc = "idle"
    /\ \E f \in {"range_per_level", "assign_bin", "all_bins"},
          r \in CallerRegions :
          threads' = [threads EXCEPT ![c] =
              [IdleFrame EXCEPT !.op = f, !.args = r, !.pc = "running",
                                !.gen = new_generator(r[1], r[2])]]
    /\ UNCHANGED <<module, notThreads>>

\* A caller enters covered_region: lines 153-158.
ThreadCallCoveredRegion(c) ==
    /\ threads[c].pc = "idle"
    /\ \E bin \in CallerBins :
          threads' = [threads EXCEPT ![c] =
              IF bin < 0 \/ bin > module.MAX_BIN
              THEN [IdleFrame EXCEPT !.op = "covered_region",
                                     !.args = <<bin>>, !.pc = "returned",
                                     !.out = Raise("OutOfRangeError")]
              ELSE [IdleFrame EXCEPT !.op = "covered_region",
                                     !.args = <<bin>>, !.pc = "running",
                                     !.shift = module.SHIFT_FIRST]]
    /\ UNCHANGED <<module, notThreads>>

\* The caller of range_per_level takes the next pair from its iterator.
ThreadNextPair(c) ==
    /\ threads[c].pc = "running"
    /\ threads[c].op = "range_per_level"
    /\ LET n == generator_next(threads[c].gen, module)
       IN  /\ module' = n.module
           /\ threads' = [threads EXCEPT ![c] =
                 IF n.exc = "none"
                 THEN [@ EXCEPT !.gen = n.gen, !.acc = Append(@, n.val)]
                 ELSE IF n.exc = "StopIteration"
                 THEN [@ EXCEPT !.gen = n.gen, !.pc = "returned",
                                !.out = Return(threads[c].acc)]
                 ELSE [@ EXCEPT !.gen = n.gen, !.pc = "returned",
                                !.out = Raise(n.exc)]]
    /\ UNCHANGED notThreads

\* assign_bin, lines 101-105: dropwhile takes one more pair; a pair with
\* equal bins ends the call.
ThreadAssignBinStep(c) ==
    /\ threads[c].pc = "running"
    /\ threads[c].op = "assign_bin"
    /\ LET n == generator_next(threads[c].gen, module)
       IN  /\ module' = n.module
           /\ threads' = [threads EXCEPT ![c] =
                 IF n.exc = "none"
                 THEN IF n.val[1] # n.val[2]
                      THEN [@ EXCEPT !.gen = n.gen]
                      ELSE [@ EXCEPT !.gen = n.gen, !.pc = "returned",
                                     !.out = Return(n.val[1])]
                 ELSE IF n.exc = "StopIteration"
                 THEN [@ EXCEPT !.gen = n.gen, !.pc = "returned",
                                !.out = Raise("Exception")]
                 ELSE [@ EXCEPT !.gen = n.gen, !.pc = "returned",
                                !.out = Raise(n.exc)]]
    /\ UNCHANGED notThreads

\* all_bins, lines 132-134: the comprehension takes one more pair and adds
\* the bins of its level.
ThreadAllBinsStep(c) ==
    /\ threads[c].pc = "running"
    /\ threads[c].op = "all_bins"
    /\ LET n == generator_next(threads[c].gen, module)
       IN  /\ module' = n.module
           /\ threads' = [threads EXCEPT ![c] =
                 IF n.exc = "none"
                 THEN [@ EXCEPT !.gen = n.gen,
                                !.acc = @ \o range(n.val[1], n.val[2] + 1)]
                 ELSE IF n.exc = "StopIteration"
                 THEN [@ EXCEPT !.gen = n.gen, !.pc = "returned",
                                !.out = Return(threads[c].acc)]
                 ELSE [@ EXCEPT !.gen = n.gen, !.pc = "returned",
                                !.out = Raise(n.exc)]]
    /\ UNCHANGED notThreads

\* covered_region, lines 159-162: one turn of the loop.
ThreadCoveredRegionStep(c) ==
    /\ threads[c].pc = "running"
    /\ threads[c].op = "covered_region"
    /\ LET f == threads[c]
           bin == f.args[1]
       IN  threads' = [threads EXCEPT ![c] =
              IF f.i + 1 > Len(module.BIN_OFFSETS)
              THEN [@ EXCEPT !.pc = "returned", !.out = Return(None)]
              ELSE IF module.BIN_OFFSETS[f.i + 1] <= bin
              THEN [@ EXCEPT !.pc = "returned", !.out =
                     Return(<<Shl(bin - module.BIN_OFFSETS[f.i + 1], f.shift)
                                  + 1,
                              Shl(bin + 1 - module.BIN_OFFSETS[f.i + 1],
                                  f.shift)>>)]
              ELSE [@ EXCEPT !.i = f.i + 1,
                             !.shift = f.shift + module.SHIFT_NEXT]]
    /\ UNCHANGED <<module, notThreads>>

\* The caller has its outcome and leaves the call.
ThreadReturn(c) ==
    /\ threads[c].pc = "returned"
    /\ threads' = [threads EXCEPT ![c] = IdleFrame]
    /\ UNCHANGED <<module, notThreads>>

BinningIdle ==
    /\ op = "idle"
    /\ args = <<>>
    /\ result = Return(None)

\* No BED file is being processed.
BedIdle ==
    /\ bed_lines = <<>>
    /\ bed_pos = 0
    /\ stdout = <<>>
    /\ stderr = <<>>
    /\ bed_pc = "not started"
    /\ exit_status = 0

\* A record read at the end of a file: four empty lines.  A record is
\* modelled by its header line, and a header line by what sep.split makes
\* of it: the pieces of text between the matches of sep, and the matches.
EndOfFile == [pieces |-> <<"">>, seps |-> <<>>]

\* No read files are being synced.
SyncIdle ==
    /\ original = <<>>
    /\ reads_a = <<>>
    /\ reads_b = <<>>
    /\ headers_done = 0
    /\ read_a = 0
    /\ read_b = 0
    /\ record_a = EndOfFile
    /\ record_b = EndOfFile
    /\ synced_a = <<>>
    /\ synced_b = <<>>
    /\ filtered_a = 0
    /\ filtered_b = 0
    /\ kept = 0
    /\ sync_pc = "not started"

\* No VCF file is being split.
PartsIdle ==
    /\ vcf = <<>>
    /\ vcf_pos = 0
    /\ header = <<>>
    /\ part_files = <<>>
    /\ line_count = 0
    /\ parts_pc = "not started"
    /\ fatal = ""

\* No part is being waited for.
WaitIdle ==
    /\ jobs = <<>>
    /\ part_no = 0
    /\ waiting = 0
    /\ callee_waiting = 0
    /\ polls = 0
    /\ slept = 0
    /\ wait_pc = "not started"
    /\ wait_fatal = ""

\* No Wiggle track is being read.
WigIdle ==
    /\ wig = <<>>
    /\ wig_pos = 0
    /\ in_region = FALSE
    /\ previous_position = 0
    /\ region_start = None
    /\ region_end = None
    /\ chrom = None
    /\ bed = <<>>
    /\ wig_pc = "not started"

\* No pileup file is being read.
PileupIdle ==
    /\ pileup = <<>>
    /\ pileup_pos = 0
    /\ first_position = None
    /\ last_position = None
    /\ pileup_position = None
    /\ total_coverage = 0
    /\ minimum_coverage = 0
    /\ maximum_coverage = 0
    /\ grouped_coverage = <<>>
    /\ coverage_json = Return(None)
    /\ pileup_pc = "not started"

\* No BAM file is being read.
BamIdle ==
    /\ bam = <<>>
    /\ bam_pos = 0
    /\ qname = None
    /\ read_left = None
    /\ read_right = None
    /\ left_file = <<>>
    /\ right_file = <<>>
    /\ sync_pairs = FALSE
    /\ bam_pc = "not started"

\* None of the other scripts of the repository is running.
OtherScriptsIdle == WaitIdle /\ WigIdle /\ PileupIdle /\ BamIdle

ThreadsInit ==
    /\ BinningIdle /\ ThreadsIdle /\ BedIdle /\ SyncIdle /\ PartsIdle
    /\ OtherScriptsIdle

ThreadsNext ==
    \E c \in Callers :
        \/ ThreadCallOnRegion(c)
        \/ ThreadCallCoveredRegion(c)
        \/ ThreadNextPair(c)
        \/ ThreadAssignBinStep(c)
        \/ ThreadAllBinsStep(c)
        \/ ThreadCoveredRegionStep(c)
        \/ ThreadReturn(c)

SpecThreads == ThreadsInit /\ [][ThreadsNext]_vars

----------------------------------------------------------------------------
(* The state machine: one call at a time, its outcome kept until dropped *)

Init ==
    /\ op = "idle"
    /\ args = <<>>
    /\ result = Return(None)
    /\ ThreadsIdle
    /\ BedIdle
    /\ SyncIdle
    /\ PartsIdle
    /\ OtherScriptsIdle

\* list(range_per_level(start, end))
CallRangePerLevel ==
    /\ op = "idle"
    /\ \E start \in Positions, end \in Positions :
          /\ op' = "range_per_level"
          /\ args' = <<start, end>>
          /\ result' = range_per_level(start, end)
    /\ UNCHANGED notBinning

\* assign_bin(start, end)
CallAssignBin ==
    /\ op = "idle"
    /\ \E start \in Positions, end \in Positions :
          /\ op' = "assign_bin"
          /\ args' = <<start, end>>
          /\ result' = assign_bin(start, end)
    /\ UNCHANGED notBinning

\* all_bins(start, end), or all_bins(start) with end left at its default
CallAllBins ==
    /\ op = "idle"
    /\ \E start \in Positions,
          end \in {None} \cup {Some(p) : p \in Positions} :
          /\ op' = "all_bins"
          /\ args' = <<start, end>>
          /\ result' = all_bins(start, end)
    /\ UNCHANGED notBinning

\* covered_region(bin)
CallCoveredRegion ==
    /\ op = "idle"
    /\ \E bin \in BinNumbers :
          /\ op' = "covered_region"
          /\ args' = <<bin>>
          /\ result' = covered_region(bin)
    /\ UNCHANGED notBinning

\* The caller is done with the outcome.
Drop ==
    /\ op # "idle"
    /\ op' = "idle"
    /\ args' = <<>>
    /\ result' = Return(None)
    /\ UNCHANGED notBinning

Next ==
    \/ CallRangePerLevel
    \/ CallAssignBin
    \/ CallAllBins
    \/ CallCoveredRegion
    \/ Drop

Spec == Init /\ [][Next]_vars

----------------------------------------------------------------------------
(* region-binning/bed_binning.py, main, lines 25-56 *)

\* A token of line.split(): a word, or the digits of an integer.
Word(w) == [isint |-> FALSE, n |-> 0, w |-> w]

Number(n) == [isint |-> TRUE, n |-> n, w |-> ""]

\* int(token): the integer, or ValueError for a word.
int(token) == IF token.isint THEN Return(token.n) ELSE Raise("ValueError")

\* Line 41: a line without tokens, or one that starts with 'track'.
skipped(parts) == IF Len(parts) < 1 THEN TRUE ELSE parts[1] = Word("track")

\* Lines 44-50: parts[1] and parts[2] as integers, or the IndexError or
\* ValueError of the first of them that fails.
parse_region(parts) ==
    IF Len(parts) < 2 THEN Raise("IndexError")
    ELSE IF int(parts[2]).exc # "none" THEN int(parts[2])
    ELSE IF Len(parts) < 3 THEN Raise("IndexError")
    ELSE IF int(parts[3]).exc # "none" THEN int(parts[3])
    ELSE Return(<<int(parts[2]).val, int(parts[3]).val>>)

\* The bin of a region taken as it stands in the file, zero-based start.
bin_of_region_zero_based(region) == assign_bin(region[1], region[2])

\* Line 54: the BED region (start, end) is the one-based start + 1 .. end.
bin_of_region(region) == assign_bin(region[1] + 1, region[2])

\* The values in the message of OutOfRangeError, region_binning.py lines
\* 65-71: start and end after the swap, and the maximum position.
out_of_range_values(start, end) ==
    IF start > end THEN <<end, start, MAX_POSITION>>
    ELSE <<start, end, MAX_POSITION>>

\* What print writes: the kind of line and the integers in it (for an
\* invalid line, the number of the line that is quoted).
Printed(kind, values) == [kind |-> kind, values |-> values]

\* The longest BED file.
MaxBedLines == 3

\* The lines a BED file is made of: a blank line, a track line, two regions
\* in range, two out of range (the second with start > end), a line with a
\* field missing and a line with a word for a number.
BedLineKinds ==
    {<<>>,
     <<Word("track"), Word("name")>>,
     <<Word("chr1"), Number(99999), Number(100005)>>,
     <<Word("chr1"), Number(BinSize(1)), Number(BinSize(1) + 1)>>,
     <<Word("chr1"), Number(0), Number(MAX_POSITION + 1)>>,
     <<Word("chr1"), Number(7), Number(0)>>,
     <<Word("chr1"), Number(5)>>,
     <<Word("chr1"), Word("x"), Number(5)>>}

BedFiles ==
    UNION {[1..n -> BedLineKinds] : n \in 0..MaxBedLines}

BedInit ==
    /\ bed_lines \in BedFiles
    /\ bed_pos = 0
    /\ stdout = <<>>
    /\ stderr = <<>>
    /\ bed_pc = "reading"
    /\ exit_status = 0
    /\ BinningIdle /\ ThreadsIdle /\ SyncIdle /\ PartsIdle
    /\ OtherScriptsIdle

\* The line that readline returns next.
NextBedLine == bed_lines[bed_pos + 1]

\* Lines 36-42: a blank line or a track line is passed over.
BedSkipLine ==
    /\ bed_pc = "reading"
    /\ bed_pos < Len(bed_lines)
    /\ skipped(NextBedLine)
    /\ bed_pos' = bed_pos + 1
    /\ UNCHANGED <<bed_lines, stdout, stderr, bed_pc, exit_status, notBed>>

\* Lines 48-50: the line cannot be read as a region; the message goes to
\* standard output and the program exits with status 1.
BedInvalidLine ==
    /\ bed_pc = "reading"
    /\ bed_pos < Len(bed_lines)
    /\ ~skipped(NextBedLine)
    /\ parse_region(NextBedLine).exc # "none"
    /\ bed_pos' = bed_pos + 1
    /\ stdout' = Append(stdout, Printed("invalid line", <<bed_pos + 1>>))
    /\ bed_pc' = "exited"
    /\ exit_status' = 1
    /\ UNCHANGED <<bed_lines, stderr, notBed>>

\* Line 54: the bin of the region is printed.
BedPrintBin ==
    /\ bed_pc = "reading"
    /\ bed_pos < Len(bed_lines)
    /\ ~skipped(NextBedLine)
    /\ parse_region(NextBedLine).exc = "none"
    /\ bin_of_region(parse_region(NextBedLine).val).exc = "none"
    /\ bed_pos' = bed_pos + 1
    /\ stdout' = Append(stdout,
           Printed("bin", <<bin_of_region(parse_region(NextBedLine).val).val>>))
    /\ UNCHANGED <<bed_lines, stderr, bed_pc, exit_status, notBed>>

\* The same step with sys.exit(1) after the message, as for an invalid line.
BedRegionRaises_exits ==
    /\ bed_pc = "reading"
    /\ bed_pos < Len(bed_lines)
    /\ ~skipped(NextBedLine)
    /\ parse_region(NextBedLine).exc = "none"
    /\ bin_of_region(parse_region(NextBedLine).val).exc # "none"
    /\ bed_pos' = bed_pos + 1
    /\ stderr' = Append(stderr, Printed("out of range",
           out_of_range_values(parse_region(NextBedLine).val[1] + 1,
                               parse_region(NextBedLine).val[2])))
    /\ bed_pc' = "exited"
    /\ exit_status' = 1
    /\ UNCHANGED <<bed_lines, stdout, notBed>>

\* Lines 52-56: assign_bin raises.  OutOfRangeError is caught, its message
\* is printed to standard error and the loop goes on; any other exception
\* is not caught and ends the program with status 1.
BedRegionRaises ==
    /\ bed_pc = "reading"
    /\ bed_pos < Len(bed_lines)
    /\ ~skipped(NextBedLine)
    /\ parse_region(NextBedLine).exc = "none"
    /\ bin_of_region(parse_region(NextBedLine).val).exc # "none"
    /\ bed_pos' = bed_pos + 1
    /\ IF bin_of_region(parse_region(NextBedLine).val).exc = "OutOfRangeError"
       THEN /\ stderr' = Append(stderr, Printed("out of range",
                   out_of_range_values(parse_region(NextBedLine).val[1] + 1,
                                       parse_region(NextBedLine).val[2])))
            /\ UNCHANGED <<bed_pc, exit_status>>
       ELSE /\ stderr' = Append(stderr, Printed("traceback", <<>>))
            /\ bed_pc' = "exited"
            /\ exit_status' = 1
    /\ UNCHANGED <<bed_lines, stdout, notBed>>

\* Lines 37-38: readline returns nothing; main returns and the status is 0.
BedEndOfFile ==
    /\ bed_pc = "reading"
    /\ bed_pos = Len(bed_lines)
    /\ bed_pc' = "exited"
    /\ exit_status' = 0
    /\ UNCHANGED <<bed_lines, bed_pos, stdout, stderr, notBed>>

BedNext ==
    \/ BedSkipLine
    \/ BedInvalidLine
    \/ BedPrintBin
    \/ BedRegionRaises
    \/ BedEndOfFile

SpecBed == BedInit /\ [][BedNext]_vars

----------------------------------------------------------------------------
(* sync-paired-end-reads/sync_paired_end_reads.py, sync_paired_end_reads,
   lines 37-91 *)

\* A match of sep = '[\s_/][123]': one of whitespace, _ and /, and a digit.
Sep(char, digit) == [char |-> char, digit |-> digit]

\* The name of a read without a match of sep in it, as @a.
PlainName(text) == [pieces |-> <<text>>, seps |-> <<>>]

\* The name of a read that ends in a match of sep, as @r_1.
NumberedName(text, digit) ==
    [pieces |-> <<text, "">>, seps |-> <<Sep("_", digit)>>]

\* The header line of an end of a pair: the name of the read, /1 or /2.
header_line(name, end) ==
    [pieces |-> name.pieces \o <<"">>, seps |-> name.seps \o <<Sep("/", end)>>]

\* sep.split(line): the text around every match of sep, without the matches.
split(line) == line.pieces

\* Lines 66-67: head(record) = sep.split(record[0])[:-1].
head(record) == SubSeq(split(record), 1, Len(split(record)) - 1)

\* Lines 63-64: the next record of a file, four empty lines at its end.
next_record(file, pos) == IF pos < Len(file) THEN file[pos + 1] ELSE EndOfFile

\* The position of a file after readline: it does not go past the end.
next_pos(file, pos) == IF pos < Len(file) THEN pos + 1 ELSE pos

\* The most reads in the original file.
MaxReads == 3

ReadNames ==
    {PlainName("@a"), PlainName("@b"),
     NumberedName("@r", 1), NumberedName("@r", 2)}

\* The original files: up to MaxReads reads with different names.
Originals ==
    {names \in UNION {[1..n -> ReadNames] : n \in 0..MaxReads} :
        \A i, j \in 1..Len(names) : names[i] = names[j] => i = j}

\* The reads of a file that are in a set of positions, in the file's order.
RECURSIVE Subsequence(_, _)
Subsequence(names, keep) ==
    IF names = <<>> THEN <<>>
    ELSE LET rest == Subsequence(SubSeq(names, 1, Len(names) - 1), keep)
         IN  IF Len(names) \in keep THEN Append(rest, names[Len(names)])
             ELSE rest

\* The file of one end of the reads of the given names.
reads_file(names, end) == [i \in 1..Len(names) |-> header_line(names[i], end)]

\* The call: original holds one end of all the reads, reads_a and reads_b
\* hold the first and the second end of some of them, in the same order.
SyncInit ==
    /\ \E names \in Originals :
          /\ original = reads_file(names, 1)
          /\ \E keep_a, keep_b \in SUBSET (1..Len(names)) :
                /\ reads_a = reads_file(Subsequence(names, keep_a), 1)
                /\ reads_b = reads_file(Subsequence(names, keep_b), 2)
    /\ headers_done = 0
    /\ read_a = 0
    /\ read_b = 0
    /\ record_a = EndOfFile
    /\ record_b = EndOfFile
    /\ synced_a = <<>>
    /\ synced_b = <<>>
    /\ filtered_a = 0
    /\ filtered_b = 0
    /\ kept = 0
    /\ sync_pc = "called"
    /\ BinningIdle /\ ThreadsIdle /\ BedIdle /\ PartsIdle
    /\ OtherScriptsIdle

\* Lines 72-74: the counts are set to 0 and the first record of each file
\* is read.
SyncFirstRecords ==
    /\ sync_pc = "called"
    /\ record_a' = next_record(reads_a, read_a)
    /\ record_b' = next_record(reads_b, read_b)
    /\ read_a' = next_pos(reads_a, read_a)
    /\ read_b' = next_pos(reads_b, read_b)
    /\ sync_pc' = "looping"
    /\ UNCHANGED <<original, reads_a, reads_b, headers_done, synced_a,
                   synced_b, filtered_a, filtered_b, kept, notSync>>

\* Lines 76-89: one turn of the loop over the headers of original, its
\* three tests in order; the second test sees the record the first one
\* has read.
SyncHeader ==
    /\ sync_pc = "looping"
    /\ headers_done < Len(original)
    /\ LET next_header == head(original[headers_done + 1])
           only_a ==
               next_header = head(record_a) /\ head(record_b) # next_header
           a1 == IF only_a THEN next_record(reads_a, read_a) ELSE record_a
           pos_a1 == IF only_a THEN next_pos(reads_a, read_a) ELSE read_a
           only_b == next_header = head(record_b) /\ head(a1) # next_header
           b1 == IF only_b THEN next_record(reads_b, read_b) ELSE record_b
           pos_b1 == IF only_b THEN next_pos(reads_b, read_b) ELSE read_b
           both == next_header = head(a1) /\ head(a1) = head(b1)
       IN  /\ filtered_a' = IF only_a THEN filtered_a + 1 ELSE filtered_a
           /\ filtered_b' = IF only_b THEN filtered_b + 1 ELSE filtered_b
           /\ synced_a' = IF both THEN Append(synced_a, a1) ELSE synced_a
           /\ synced_b' = IF both THEN Append(synced_b, b1) ELSE synced_b
           /\ record_a' = IF both THEN next_record(reads_a, pos_a1) ELSE a1
           /\ record_b' = IF both THEN next_record(reads_b, pos_b1) ELSE b1
           /\ read_a' = IF both THEN next_pos(reads_a, pos_a1) ELSE pos_a1
           /\ read_b' = IF both THEN next_pos(reads_b, pos_b1) ELSE pos_b1
           /\ kept' = IF both THEN kept + 1 ELSE kept
    /\ headers_done' = headers_done + 1
    /\ UNCHANGED <<original, reads_a, reads_b, sync_pc, notSync>>

\* Line 91: the headers are exhausted and the counts are returned.
SyncReturn ==
    /\ sync_pc = "looping"
    /\ headers_done = Len(original)
    /\ sync_pc' = "returned"
    /\ UNCHANGED <<original, reads_a, reads_b, headers_done, read_a, read_b,
                   record_a, record_b, synced_a, synced_b, filtered_a,
                   filtered_b, kept, notSync>>

SyncNext ==
    \/ SyncFirstRecords
    \/ SyncHeader
    \/ SyncReturn

SpecSync == SyncInit /\ [][SyncNext]_vars

----------------------------------------------------------------------------
(* seattle-seq-annotation/seattle_seq_annotation.py, create_parts,
   lines 145-211 *)

\* Line 55: the most variants SeattleSeq is sent in one file.
MAX_VARIANTS == 900000

\* A VCF file is a sequence of runs of lines of one kind: "#" for a header
\* line, "v" for a variant.
Run(kind, n) == [kind |-> kind, n |-> n]

\* The number of lines in the first i runs of a file.
RECURSIVE LinesIn(_, _)
LinesIn(runs, i) == IF i = 0 THEN 0 ELSE LinesIn(runs, i - 1) + runs[i].n

\* The run of the line that readline returns after pos lines.
RunAt(runs, pos) ==
    CHOOSE i \in 1..Len(runs) :
        LinesIn(runs, i - 1) <= pos /\ pos < LinesIn(runs, i)

\* The lines of that run that are still to be read.
LeftInRun(runs, pos) == LinesIn(runs, RunAt(runs, pos)) - pos

\* The most runs in a VCF file.
MaxVcfRuns == 3

\* Header lines come one at a time; variants come alone, in twos, and as
\* many as one part takes or one more.
VcfRuns ==
    {Run("#", 1), Run("v", 1), Run("v", 2),
     Run("v", MAX_VARIANTS), Run("v", MAX_VARIANTS + 1)}

VcfFiles == UNION {[1..n -> VcfRuns] : n \in 0..MaxVcfRuns}

\* Lines 154-181: the file is open, the header is the line for automated
\* processing, there are no parts and line_count is MAX_VARIANTS.
PartsInit ==
    /\ vcf \in VcfFiles
    /\ vcf_pos = 0
    /\ header = <<"# autoFile vcfAuto.txt">>
    /\ part_files = <<>>
    /\ line_count = MAX_VARIANTS
    /\ parts_pc = "reading"
    /\ fatal = ""
    /\ BinningIdle /\ ThreadsIdle /\ BedIdle /\ SyncIdle
    /\ OtherScriptsIdle

\* Lines 167-176: a new part, which starts with the header read so far.
open_part(files) == Append(files, [header |-> header, variants |-> 0])

\* Line 201: n lines written to the part that is open, the last one.
write(files, n) ==
    [files EXCEPT ![Len(files)].variants = files[Len(files)].variants + n]

\* Lines 190-192: a header line is added to the header.
PartsHeaderLine ==
    /\ parts_pc = "reading"
    /\ vcf_pos < LinesIn(vcf, Len(vcf))
    /\ vcf[RunAt(vcf, vcf_pos)].kind = "#"
    /\ header' = Append(header, "#")
    /\ vcf_pos' = vcf_pos + 1
    /\ UNCHANGED <<vcf, part_files, line_count, parts_pc, fatal, notParts>>

\* Lines 194-201: a variant is counted, a new part is opened when the count
\* exceeds MAX_VARIANTS, and the line is written to the part; then the
\* variants after it in the run, as long as the count does not exceed
\* MAX_VARIANTS, are counted and written in the same way.
PartsVariantLines ==
    /\ parts_pc = "reading"
    /\ vcf_pos < LinesIn(vcf, Len(vcf))
    /\ vcf[RunAt(vcf, vcf_pos)].kind = "v"
    /\ LET counted == line_count + 1
           opens == counted > MAX_VARIANTS
           count == IF opens THEN 0 ELSE counted
           files == IF opens THEN open_part(part_files) ELSE part_files
           more == IF LeftInRun(vcf, vcf_pos) - 1 < MAX_VARIANTS - count
                   THEN LeftInRun(vcf, vcf_pos) - 1
                   ELSE MAX_VARIANTS - count
       IN  /\ line_count' = count + more
           /\ part_files' = write(files, 1 + more)
           /\ vcf_pos' = vcf_pos + 1 + more
    /\ UNCHANGED <<vcf, header, parts_pc, fatal, notParts>>

\* Lines 186-187 and 203-211: at the end of the file, fatal_error when
\* line_count is 0 (the message is printed and the program exits with
\* status 1), else the part files are returned.
PartsEndOfFile ==
    /\ parts_pc = "reading"
    /\ vcf_pos = LinesIn(vcf, Len(vcf))
    /\ IF line_count = 0
       THEN /\ fatal' = "VCF file contains no variants."
            /\ parts_pc' = "exited"
       ELSE /\ fatal' = fatal
            /\ parts_pc' = "returned"
    /\ UNCHANGED <<vcf, vcf_pos, header, part_files, line_count, notParts>>

PartsNext ==
    \/ PartsHeaderLine
    \/ PartsVariantLines
    \/ PartsEndOfFile

SpecParts == PartsInit /\ [][PartsNext]_vars

----------------------------------------------------------------------------
(* seattle-seq-annotation/seattle_seq_annotation.py, wait_for_result, lines
   214-255, and its caller seattle_seq_annotation, lines 73-96 *)

\* Line 24: seconds to wait between polling for job result.
WAIT_STEP == 120

\* Line 27: maximum seconds to wait for job result.
WAIT_MAX == 43200

\* What the server does with a submitted part: it is done at the poll
\* numbered polls, or its monitor page cannot be read at that poll, or
\* (a part without variants, lines 234-239) it never says it is done.
Job(polls_needed, answer) == [polls |-> polls_needed, answer |-> answer]

\* Lines 225-252: what a poll finds, "busy" for 0,0 and for processed
\* other than total, "done" for processed = total, "unreadable" for a line
\* that is not two fields.
monitor(job, poll) ==
    IF job.answer = "never" THEN "busy"
    ELSE IF poll < job.polls THEN "busy"
    ELSE IF job.answer = "unreadable" THEN "unreadable"
    ELSE "done"

\* The most parts submitted.
MaxParts == 3

\* A part is done at the first or at the second poll, or after half of
\* WAIT_MAX, or never, or its monitor cannot be read at the second poll.
Jobs ==
    {Job(1, "done"), Job(2, "done"), Job(WAIT_MAX \div (2 * WAIT_STEP), "done"),
     Job(0, "never"), Job(2, "unreadable")}

\* Lines 79-83: the parts are submitted and waiting is 0.
WaitInit ==
    /\ jobs \in UNION {[1..n -> Jobs] : n \in 0..MaxParts}
    /\ part_no = 0
    /\ waiting = 0
    /\ callee_waiting = 0
    /\ polls = 0
    /\ slept = 0
    /\ wait_pc = "caller"
    /\ wait_fatal = ""
    /\ BinningIdle /\ ThreadsIdle /\ BedIdle /\ SyncIdle /\ PartsIdle
    /\ WigIdle /\ PileupIdle /\ BamIdle

\* Lines 89-90: wait_for_result is called for the next submission with the
\* caller's waiting as argument.
WaitCall ==
    /\ wait_pc = "caller"
    /\ part_no < Len(jobs)
    /\ part_no' = part_no + 1
    /\ callee_waiting' = waiting
    /\ polls' = 0
    /\ wait_pc' = "waiting"
    /\ UNCHANGED <<jobs, waiting, slept, wait_fatal, notWait>>

\* Lines 220-221: waiting exceeds WAIT_MAX at the head of the loop.
WaitTooLong ==
    /\ wait_pc = "waiting"
    /\ callee_waiting > WAIT_MAX
    /\ wait_fatal' = "Job took too long."
    /\ wait_pc' = "exited"
    /\ UNCHANGED <<jobs, part_no, waiting, callee_waiting, polls, slept,
                   notWait>>

\* Lines 223-252: one turn of the loop: sleep WAIT_STEP seconds, add them
\* to waiting, poll the monitor.
WaitPoll ==
    /\ wait_pc = "waiting"
    /\ callee_waiting <= WAIT_MAX
    /\ slept' = slept + WAIT_STEP
    /\ callee_waiting' = callee_waiting + WAIT_STEP
    /\ polls' = polls + 1
    /\ IF monitor(jobs[part_no], polls + 1) = "unreadable"
       THEN /\ wait_fatal' = "Could not read progress from monitor."
            /\ wait_pc' = "exited"
       ELSE /\ wait_fatal' = wait_fatal
            /\ wait_pc' = IF monitor(jobs[part_no], polls + 1) = "done"
                          THEN "returning" ELSE "waiting"
    /\ UNCHANGED <<jobs, part_no, waiting, notWait>>

\* Lines 254 and 90: wait_for_result returns its waiting and the caller
\* adds what is returned to its own waiting.
WaitReturn ==
    /\ wait_pc = "returning"
    /\ waiting' = waiting + callee_waiting
    /\ wait_pc' = "caller"
    /\ UNCHANGED <<jobs, part_no, callee_waiting, polls, slept, wait_fatal,
                   notWait>>

\* Line 95: every submission has been waited for.
WaitSummary ==
    /\ wait_pc = "caller"
    /\ part_no = Len(jobs)
    /\ wait_pc' = "done"
    /\ UNCHANGED <<jobs, part_no, waiting, callee_waiting, polls, slept,
                   wait_fatal, notWait>>

WaitNext ==
    \/ WaitCall
    \/ WaitTooLong
    \/ WaitPoll
    \/ WaitReturn
    \/ WaitSummary

SpecWait == WaitInit /\ [][WaitNext]_vars

----------------------------------------------------------------------------
(* coverage-wiggle-to-bed/coverage-wiggle-to-bed.py, write_bed, lines
   71-126 *)

\* The lines of a Wiggle track.  A line that starts with '#', 'browser' or
\* 'track'; a variableStep line with its chromosome, or without 'chrom=';
\* a line with a position and a coverage, of which only what of_interest
\* says about it matters; a line that is none of these.
IgnoredLine ==
    [kind |-> "ignored", chrom |-> "", position |-> 0, interest |-> FALSE]

VariableStep(chromosome) ==
    [kind |-> "variableStep", chrom |-> chromosome, position |-> 0,
     interest |-> FALSE]

VariableStepWithoutChrom ==
    [kind |-> "variableStep", chrom |-> "", position |-> 0,
     interest |-> FALSE]

PositionLine(pos, interest) ==
    [kind |-> "position", chrom |-> "", position |-> pos,
     interest |-> interest]

UnreadableLine ==
    [kind |-> "unreadable", chrom |-> "", position |-> 0, interest |-> FALSE]

\* Lines 79-81 with a one-based start.
write_region_one_based(lines, inside, chromosome, start, end) ==
    IF inside
    THEN Append(lines, [chrom |-> chromosome, start |-> start[1],
                        end |-> end[1]])
    ELSE lines

\* Lines 79-81, write_region: the region that is open, if any, is written
\* as chrom, region_start - 1, region_end.
write_region(lines, inside, chromosome, start, end) ==
    IF inside
    THEN Append(lines, [chrom |-> chromosome, start |-> start[1] - 1,
                        end |-> end[1]])
    ELSE lines

\* The longest Wiggle track.
MaxWigLines == 4

WigLineKinds ==
    {IgnoredLine, VariableStep("chr1"), VariableStep("chr2"),
     VariableStepWithoutChrom, UnreadableLine}
        \cup {PositionLine(pos, TRUE) : pos \in 1..3}
        \cup {PositionLine(pos, FALSE) : pos \in 1..2}

\* Lines 75-77: the locals before the first line.
WigInit ==
    /\ wig \in UNION {[1..n -> WigLineKinds] : n \in 0..MaxWigLines}
    /\ wig_pos = 0
    /\ in_region = FALSE
    /\ previous_position = 0
    /\ region_start = None
    /\ region_end = None
    /\ chrom = None
    /\ bed = <<>>
    /\ wig_pc = "reading"
    /\ BinningIdle /\ ThreadsIdle /\ BedIdle /\ SyncIdle /\ PartsIdle
    /\ WaitIdle /\ PileupIdle /\ BamIdle

\* The line the loop is given next.
NextWigLine == wig[wig_pos + 1]

\* Lines 86-89: a line that is ignored.
WigIgnored ==
    /\ wig_pc = "reading"
    /\ wig_pos < Len(wig)
    /\ NextWigLine.kind = "ignored"
    /\ wig_pos' = wig_pos + 1
    /\ UNCHANGED <<wig, in_region, previous_position, region_start,
                   region_end, chrom, bed, wig_pc, notWig>>

\* Lines 92-101: a new chromosome: the open region is written and closed
\* and chrom is set; without 'chrom=' in the line the program exits with
\* status 1 after the region is written.
WigVariableStep ==
    /\ wig_pc = "reading"
    /\ wig_pos < Len(wig)
    /\ NextWigLine.kind = "variableStep"
    /\ wig_pos' = wig_pos + 1
    /\ bed' = write_region(bed, in_region, chrom, region_start, region_end)
    /\ in_region' = FALSE
    /\ IF NextWigLine = VariableStepWithoutChrom
       THEN wig_pc' = "exited" /\ chrom' = chrom
       ELSE wig_pc' = wig_pc /\ chrom' = Some(NextWigLine.chrom)
    /\ UNCHANGED <<wig, previous_position, region_start, region_end, notWig>>

\* Lines 104-110: a line that is not a position and a coverage: the
\* program exits with status 1.
WigUnreadable ==
    /\ wig_pc = "reading"
    /\ wig_pos < Len(wig)
    /\ NextWigLine.kind = "unreadable"
    /\ wig_pos' = wig_pos + 1
    /\ wig_pc' = "exited"
    /\ UNCHANGED <<wig, in_region, previous_position, region_start,
                   region_end, chrom, bed, notWig>>

\* Lines 112-124: a position with coverage data.
WigPosition ==
    /\ wig_pc = "reading"
    /\ wig_pos < Len(wig)
    /\ NextWigLine.kind = "position"
    /\ wig_pos' = wig_pos + 1
    /\ LET position == NextWigLine.position
           breaks == IF NextWigLine.interest
                     THEN position # previous_position + 1
                     ELSE TRUE
           inside == IF breaks THEN FALSE ELSE in_region
       IN  /\ bed' = IF breaks
                     THEN write_region(bed, in_region, chrom, region_start,
                                       region_end)
                     ELSE bed
           /\ in_region' = NextWigLine.interest
           /\ region_start' = IF NextWigLine.interest /\ ~inside
                              THEN Some(position) ELSE region_start
           /\ region_end' = IF NextWigLine.interest
                            THEN Some(position) ELSE region_end
           /\ previous_position' = position
    /\ UNCHANGED <<wig, chrom, wig_pc, notWig>>

\* Line 126: after the last line the open region is written.
WigEnd ==
    /\ wig_pc = "reading"
    /\ wig_pos = Len(wig)
    /\ bed' = write_region(bed, in_region, chrom, region_start, region_end)
    /\ wig_pc' = "returned"
    /\ UNCHANGED <<wig, wig_pos, in_region, previous_position, region_start,
                   region_end, chrom, notWig>>

WigNext ==
    \/ WigIgnored
    \/ WigVariableStep
    \/ WigUnreadable
    \/ WigPosition
    \/ WigEnd

SpecWig == WigInit /\ [][WigNext]_vars

----------------------------------------------------------------------------
(* pileup-coverage/pileup_coverage.py, calculate_coverage, lines 47-115 *)

\* Line 44: the number of positions in a group.
GROUP_SIZE == 100

\* Line 53: the minimum coverage before any line is read.
INITIAL_MINIMUM == 10000

\* x // y and x % y on Python integers: the quotient is floored, also for
\* a negative divisor, and the remainder has the sign of the divisor.
floordiv(x, y) == IF y > 0 THEN x \div y ELSE (0 - x) \div (0 - y)

modulo(x, y) == x - y * floordiv(x, y)

\* The built-in min and max of two integers.
min(x, y) == IF y < x THEN y ELSE x

max(x, y) == IF y > x THEN y ELSE x

\* not x, for an optional integer: true for None and for 0.
not(x) == IF x = None THEN TRUE ELSE x[1] = 0

\* A line of the pileup file with its position and coverage, and a line
\* without a fourth field or with a field that is not a number.
PileupLine(pos, cov) == [readable |-> TRUE, position |-> pos, coverage |-> cov]

UnreadablePileupLine == [readable |-> FALSE, position |-> 0, coverage |-> 0]

\* grouped_coverage[key] of the defaultdict(int): 0 for a key not yet set.
get(dict, key) == IF key \in DOMAIN dict THEN dict[key] ELSE 0

\* grouped_coverage[key] += cov.
add(dict, key, cov) ==
    [k \in DOMAIN dict \cup {key} |->
        IF k = key THEN get(dict, k) + cov ELSE dict[k]]

\* Lines 97-103: the average coverage of each group, or the
\* ZeroDivisionError of the first group whose group_size is 0.
average_grouped_coverage(grouped, region_size) ==
    LET last_group == floordiv(region_size - 1, GROUP_SIZE)
        group_size(group) ==
            IF group = last_group THEN modulo(region_size, GROUP_SIZE)
            ELSE GROUP_SIZE
    IN  IF \E group \in 0..last_group : group_size(group) = 0
        THEN Raise("ZeroDivisionError")
        ELSE Return([g \in 1..(last_group + 1) |->
                        floordiv(get(grouped, g - 1), group_size(g - 1))])

\* Lines 86-115: what is printed after the last line, or the exception
\* that ends the function: position is not bound when no line was read,
\* and the divisions fail for a divisor of 0.
report(first, last, position, total, minimum, maximum, grouped) ==
    IF not(last) /\ position = None THEN Raise("UnboundLocalError")
    ELSE IF first = None THEN Raise("TypeError")
    ELSE LET last_given == IF not(last) THEN position[1] ELSE last[1]
             region_size == last_given - first[1] + 1
         IN  IF region_size = 0 THEN Raise("ZeroDivisionError")
             ELSE IF average_grouped_coverage(grouped, region_size).exc
                         # "none"
             THEN average_grouped_coverage(grouped, region_size)
             ELSE Return([region_size |-> region_size,
                          mean_coverage |-> floordiv(total, region_size),
                          minimum_coverage |-> minimum,
                          maximum_coverage |-> maximum,
                          grouped_coverage |->
                              average_grouped_coverage(grouped,
                                                       region_size).val,
                          group_size |-> GROUP_SIZE])

\* The longest pileup file.
MaxPileupLines == 3

\* Positions at both ends of the first group and at the start of the
\* second, with a low and a high coverage.
PileupPositions == {1, 2, GROUP_SIZE, GROUP_SIZE + 1}

PileupLines ==
    {PileupLine(pos, cov) : pos \in PileupPositions, cov \in {3, 250}}
        \cup {UnreadablePileupLine}

\* The position arguments: none, or a first and a last position.
PositionArguments ==
    {<<None, None>>}
        \cup {<<Some(first), Some(last)>> :
                 first \in {1, 2}, last \in {2, GROUP_SIZE, GROUP_SIZE + 1}}

\* Lines 52-59: the call, with the file open and nothing read.
PileupInit ==
    /\ pileup \in UNION {[1..n -> PileupLines] : n \in 0..MaxPileupLines}
    /\ \E arguments \in PositionArguments :
          /\ first_position = arguments[1]
          /\ last_position = arguments[2]
    /\ pileup_pos = 0
    /\ pileup_position = None
    /\ total_coverage = 0
    /\ minimum_coverage = INITIAL_MINIMUM
    /\ maximum_coverage = 0
    /\ grouped_coverage = <<>>
    /\ coverage_json = Return(None)
    /\ pileup_pc = "reading"
    /\ BinningIdle /\ ThreadsIdle /\ BedIdle /\ SyncIdle /\ PartsIdle
    /\ WaitIdle /\ WigIdle /\ BamIdle

NextPileupLine == pileup[pileup_pos + 1]

\* Lines 65-84: a line is read and added to the total, the minimum, the
\* maximum and its group; the first line sets first_position if it is not
\* given.
PileupReadLine ==
    /\ pileup_pc = "reading"
    /\ pileup_pos < Len(pileup)
    /\ NextPileupLine.readable
    /\ pileup_pos' = pileup_pos + 1
    /\ LET position == NextPileupLine.position
           coverage == NextPileupLine.coverage
           first == IF not(first_position) THEN Some(position)
                    ELSE first_position
       IN  /\ pileup_position' = Some(position)
           /\ first_position' = first
           /\ total_coverage' = total_coverage + coverage
           /\ minimum_coverage' = min(coverage, minimum_coverage)
           /\ maximum_coverage' = max(coverage, maximum_coverage)
           /\ grouped_coverage' =
                 add(grouped_coverage,
                     floordiv(position - first[1], GROUP_SIZE), coverage)
    /\ UNCHANGED <<pileup, last_position, coverage_json, pileup_pc,
                   notPileup>>

\* Lines 71-76: a line without coverage: the program exits with status 1.
PileupUnreadable ==
    /\ pileup_pc = "reading"
    /\ pileup_pos < Len(pileup)
    /\ ~NextPileupLine.readable
    /\ pileup_pos' = pileup_pos + 1
    /\ pileup_pc' = "exited"
    /\ UNCHANGED <<pileup, first_position, last_position, pileup_position,
                   total_coverage, minimum_coverage, maximum_coverage,
                   grouped_coverage, coverage_json, notPileup>>

\* Lines 66-67 and 86-115: after the last line the statistics are
\* calculated and printed, unless an exception ends the function.
PileupReport ==
    /\ pileup_pc = "reading"
    /\ pileup_pos = Len(pileup)
    /\ coverage_json' =
          report(first_position, last_position, pileup_position,
                 total_coverage, minimum_coverage, maximum_coverage,
                 grouped_coverage)
    /\ pileup_pc' = "ended"
    /\ UNCHANGED <<pileup, pileup_pos, first_position, last_position,
                   pileup_position, total_coverage, minimum_coverage,
                   maximum_coverage, grouped_coverage, notPileup>>

PileupNext ==
    \/ PileupReadLine
    \/ PileupUnreadable
    \/ PileupReport

SpecPileup == PileupInit /\ [][PileupNext]_vars

----------------------------------------------------------------------------
(* bam-to-fastq/bam_to_fastq.py, process_bam, lines 56-77 *)

\* A read of the BAM file: its name and whether it is the first of its
\* pair.  What write_read makes of its sequence and quality is left out.
Read(read_name, is_read1) == [qname |-> read_name, is_read1 |-> is_read1]

\* Lines 84-92, write_read: the header line written, @name/index, the
\* index being int(not read.is_read1) + 1.
fastq_record(read) ==
    [name |-> read.qname, index |-> IF read.is_read1 THEN 1 ELSE 2]

\* The same without the test of the other side of the pair.
write_if_present(fastq, read, other_read, sync) ==
    IF read # None THEN Append(fastq, fastq_record(read[1])) ELSE fastq

\* Lines 64-67 and 74-77: a read that is present is written, with
\* sync_pairs only if the other side of its pair is present too.
write_if_kept(fastq, read, other_read, sync) ==
    IF read # None /\ (~sync \/ other_read # None)
    THEN Append(fastq, fastq_record(read[1]))
    ELSE fastq

\* The most reads in the BAM file.
MaxBamReads == 4

BamReads ==
    {Read(read_name, is_read1) :
        read_name \in {"r1", "r2", "r3"}, is_read1 \in BOOLEAN}

\* Line 61: the locals before the first read.
BamInit ==
    /\ bam \in UNION {[1..n -> BamReads] : n \in 0..MaxBamReads}
    /\ sync_pairs \in BOOLEAN
    /\ bam_pos = 0
    /\ qname = None
    /\ read_left = None
    /\ read_right = None
    /\ left_file = <<>>
    /\ right_file = <<>>
    /\ bam_pc = "reading"
    /\ BinningIdle /\ ThreadsIdle /\ BedIdle /\ SyncIdle /\ PartsIdle
    /\ WaitIdle /\ WigIdle /\ PileupIdle

\* Lines 62-73: one read: when its name is not the name of the read
\* before it, the reads kept of that name are written and forgotten; then
\* the read is kept as the left or the right one of its name.
BamRead ==
    /\ bam_pc = "reading"
    /\ bam_pos < Len(bam)
    /\ bam_pos' = bam_pos + 1
    /\ LET read == bam[bam_pos + 1]
           new_name == IF qname = None THEN FALSE ELSE read.qname # qname[1]
           kept_left == IF new_name THEN None ELSE read_left
           kept_right == IF new_name THEN None ELSE read_right
       IN  /\ left_file' =
                 IF new_name
                 THEN write_if_kept(left_file, read_left, read_right,
                                    sync_pairs)
                 ELSE left_file
           /\ right_file' =
                 IF new_name
                 THEN write_if_kept(right_file, read_right, read_left,
                                    sync_pairs)
                 ELSE right_file
           /\ qname' = Some(read.qname)
           /\ read_left' = IF read.is_read1 THEN Some(read) ELSE kept_left
           /\ read_right' = IF read.is_read1 THEN kept_right ELSE Some(read)
    /\ UNCHANGED <<bam, sync_pairs, bam_pc, notBam>>

\* Lines 74-77: after the last read the reads kept are written.
BamEnd ==
    /\ bam_pc = "reading"
    /\ bam_pos = Len(bam)
    /\ left_file' = write_if_kept(left_file, read_left, read_right, sync_pairs)
    /\ right_file' =
          write_if_kept(right_file, read_right, read_left, sync_pairs)
    /\ bam_pc' = "returned"
    /\ UNCHANGED <<bam, bam_pos, qname, read_left, read_right, sync_pairs,
                   notBam>>

BamNext ==
    \/ BamRead
    \/ BamEnd

SpecBam == BamInit /\ [][BamNext]_vars

----------------------------------------------------------------------------
(* Properties *)

\* A valid region: 1 <= start <= end <= MAX_POSITION.
ValidRegion(start, end) == 1 <= start /\ start <= end /\ end <= MAX_POSITION

Min(a, b) == IF a < b THEN a ELSE b

Max(a, b) == IF a < b THEN b ELSE a

\* Outside the range of the binning scheme, in whichever order.
ExceedsRange(start, end) ==
    Min(start, end) < 1 \/ Max(start, end) > MAX_POSITION

\* The region <<s, e>> decoded from a bin contains start..end.
Contains(region, start, end) == region[1] <= start /\ end <= region[2]

\* The region <<s, e>> decoded from a bin shares a position with start..end.
Overlaps(region, start, end) == region[1] <= end /\ start <= region[2]

RegionLength(region) == region[2] - region[1] + 1

AllBinNumbers == 0..MAX_BIN

\* What covered_region returns for each bin of 0..MAX_BIN.
CoveredRegions == [b \in AllBinNumbers |-> covered_region(b).val]

\* The bin numbers of level i (level 1 is the finest).
LevelBins(i) ==
    BIN_OFFSETS[i] .. (IF i = 1 THEN MAX_BIN ELSE BIN_OFFSETS[i - 1] - 1)

Elements(seq) == {seq[i] : i \in 1..Len(seq)}

\* C1: for every valid region, the region decoded from the bin that
\* assign_bin returns contains the region: decoded start <= start and
\* decoded end >= end.
RoundTripContainment ==
    (op = "assign_bin" /\ ValidRegion(args[1], args[2])) =>
        /\ result.exc = "none"
        /\ covered_region(result.val).exc = "none"
        /\ covered_region(result.val).val # None
        /\ Contains(covered_region(result.val).val, args[1], args[2])

\* A region of six positions got a bin that covers far more than itself.
RoundTripWitness ==
    /\ op = "assign_bin"
    /\ args = <<100000, 100005>>
    /\ result = Return(585)
    /\ covered_region(585) = Return(<<1, 131072>>)

\* C2: for every valid region, assign_bin returns a bin that contains the
\* region, and every other bin of 0..MAX_BIN that contains the region covers
\* a longer region; assign_bin(100000, 100000) = 585.
SmallestEnclosingBin ==
    (op = "assign_bin" /\ ValidRegion(args[1], args[2])) =>
        /\ result.exc = "none"
        /\ result.val \in AllBinNumbers
        /\ Contains(CoveredRegions[result.val], args[1], args[2])
        /\ \A b \in AllBinNumbers :
              (b # result.val
                  /\ Contains(CoveredRegions[b], args[1], args[2]))
              => RegionLength(CoveredRegions[b])
                     > RegionLength(CoveredRegions[result.val])
        /\ (args = <<100000, 100000>> => result.val = 585)

\* A region that straddles a boundary of the finest level and is assigned a
\* bin of the second level, although coarser bins contain it too.
SmallestEnclosingWitness ==
    /\ op = "assign_bin"
    /\ args = <<BinSize(1), BinSize(1) + 1>>
    /\ result = Return(BIN_OFFSETS[2])
    /\ Cardinality({b \in AllBinNumbers :
           Contains(CoveredRegions[b], args[1], args[2])}) = 4

\* C3: for every valid region, the bins all_bins lists are exactly the bins
\* of 0..MAX_BIN whose covered region shares a position with the region.
AllBinsExact ==
    (op = "all_bins" /\ args[2] # None /\ ValidRegion(args[1], args[2][1])) =>
        /\ result.exc = "none"
        /\ Elements(result.val) =
              {b \in AllBinNumbers :
                  Overlaps(CoveredRegions[b], args[1], args[2][1])}

\* A region over two bins of the finest level: six bins overlap it.
AllBinsExactWitness ==
    /\ op = "all_bins"
    /\ args = <<BinSize(1), Some(BinSize(1) + 1)>>
    /\ result = Return(<<585, 586, 73, 9, 1, 0>>)

\* C4: for every valid region, all_bins is non-empty and contains the bin
\* assign_bin returns for the region.
AllBinsHasAssignedBin ==
    (op = "all_bins" /\ args[2] # None /\ ValidRegion(args[1], args[2][1])) =>
        /\ result.exc = "none"
        /\ result.val # <<>>
        /\ assign_bin(args[1], args[2][1]).exc = "none"
        /\ assign_bin(args[1], args[2][1]).val \in Elements(result.val)

\* The whole range: the assigned bin is the root, the last of 4681 bins.
AllBinsHasAssignedWitness ==
    /\ op = "all_bins"
    /\ args = <<1, Some(MAX_POSITION)>>
    /\ Len(result.val) = MAX_BIN + 1
    /\ assign_bin(1, MAX_POSITION) = Return(0)
    /\ result.val[Len(result.val)] = 0

\* C5: for any integers start and end, assign_bin(start, end) and
\* assign_bin(end, start) have the same outcome (the same bin or the same
\* exception), and start > end alone is no error.
AssignBinSymmetric ==
    op = "assign_bin" =>
        /\ result = assign_bin(args[2], args[1])
        /\ (args[1] > args[2] /\ ~ExceedsRange(args[1], args[2])
               => result.exc = "none")

\* A reversed region that gets a bin.
AssignBinSymmetricWitness ==
    /\ op = "assign_bin"
    /\ args = <<100005, 1>>
    /\ result = Return(585)

\* C6: assign_bin raises OutOfRangeError exactly when min(start, end) < 1 or
\* max(start, end) > MAX_POSITION, and otherwise returns a bin in 0..MAX_BIN.
AssignBinOutOfRange ==
    op = "assign_bin" =>
        /\ result.exc = "OutOfRangeError" <=> ExceedsRange(args[1], args[2])
        /\ ~ExceedsRange(args[1], args[2])
              => (result.exc = "none" /\ result.val \in AllBinNumbers)

\* assign_bin(0, 1) raised OutOfRangeError.
AssignBinOutOfRangeWitness ==
    /\ op = "assign_bin"
    /\ args = <<0, 1>>
    /\ result = Raise("OutOfRangeError")

\* C7: covered_region raises OutOfRangeError exactly when bin < 0 or
\* bin > MAX_BIN; for a bin in 0..MAX_BIN it returns a region (s, e), not
\* None, with 1 <= s <= e <= MAX_POSITION.
CoveredRegionOutOfRange ==
    op = "covered_region" =>
        /\ result.exc = "OutOfRangeError"
              <=> (args[1] < 0 \/ args[1] > MAX_BIN)
        /\ args[1] \in AllBinNumbers =>
              /\ result.exc = "none"
              /\ result.val # None
              /\ 1 <= result.val[1]
              /\ result.val[1] <= result.val[2]
              /\ result.val[2] <= MAX_POSITION

\* covered_region(-1) raised OutOfRangeError.
CoveredRegionOutOfRangeWitness ==
    /\ op = "covered_region"
    /\ args = <<-1>>
    /\ result = Raise("OutOfRangeError")

\* C8: all_bins raises OutOfRangeError for every pair of integers with
\* min(start, end) < 1 or max(start, end) > MAX_POSITION, as assign_bin does.
AllBinsOutOfRange ==
    (op = "all_bins" /\ args[2] # None /\ ExceedsRange(args[1], args[2][1])) =>
        /\ result.exc = "OutOfRangeError"
        /\ result = assign_bin(args[1], args[2][1])

\* C9: for every valid region range_per_level yields exactly
\* Len(BIN_OFFSETS) = 5 pairs, the i-th with firstBin <= lastBin and both in
\* the bin numbers of level i, counted from the finest level.
OnePairPerLevel ==
    (op = "range_per_level" /\ ValidRegion(args[1], args[2])) =>
        /\ result.exc = "none"
        /\ Len(result.val) = Len(BIN_OFFSETS)
        /\ Len(result.val) = 5
        /\ \A i \in 1..Len(result.val) :
              /\ result.val[i][1] <= result.val[i][2]
              /\ result.val[i][1] \in LevelBins(i)
              /\ result.val[i][2] \in LevelBins(i)

\* The widest region: every bin of every level, first to last.
OnePairPerLevelWitness ==
    /\ op = "range_per_level"
    /\ args = <<1, MAX_POSITION>>
    /\ result = Return(<<  <<585, 4680>>, <<73, 584>>, <<9, 72>>,
                           <<1, 8>>, <<0, 0>>  >>)

\* C10: for every valid region the last pair range_per_level yields is the
\* root bin twice, (0, 0).
LastPairIsRoot ==
    (op = "range_per_level" /\ ValidRegion(args[1], args[2])) =>
        /\ result.exc = "none"
        /\ result.val # <<>>
        /\ result.val[Len(result.val)] = <<0, 0>>

\* The region of the last position alone: its bin on every level but the
\* root is the last of the level.
LastPairIsRootWitness ==
    /\ op = "range_per_level"
    /\ args = <<MAX_POSITION, MAX_POSITION>>
    /\ result.val[1] = <<MAX_BIN, MAX_BIN>>
    /\ result.val[Len(BIN_OFFSETS)] = <<0, 0>>

\* The level of a bin number of 0..MAX_BIN (level 1 is the finest).
LevelOf(b) == CHOOSE i \in Levels : b \in LevelBins(i)

\* C11: for every region with 0 < start <= end <= MAX_POSITION assign_bin
\* returns a bin that is the first bin of one of range_per_level's pairs;
\* whenever range_per_level accepts the arguments, assign_bin does not end
\* in the generic exception of the exhausted iterator.
AssignBinTerminates ==
    op = "assign_bin" =>
        /\ ValidRegion(args[1], args[2]) =>
              /\ result.exc = "none"
              /\ \E i \in 1..Len(range_per_level(args[1], args[2]).val) :
                    range_per_level(args[1], args[2]).val[i][1] = result.val
        /\ range_per_level(args[1], args[2]).exc = "none"
              => result.exc # "Exception"

\* The widest region: only the last pair has equal bins, and it is returned.
AssignBinTerminatesWitness ==
    /\ op = "assign_bin"
    /\ args = <<1, MAX_POSITION>>
    /\ result = Return(0)
    /\ Len(dropwhile_unequal(range_per_level(1, MAX_POSITION).val)) = 1

\* C12: the list all_bins returns goes level by level from the finest to the
\* coarsest and ascends within a level, and no bin is in it twice;
\* all_bins(100000, 100005) starts with 585.
AllBinsOrdered ==
    (op = "all_bins" /\ result.exc = "none") =>
        /\ \A i \in 1..(Len(result.val) - 1) :
              \/ LevelOf(result.val[i]) < LevelOf(result.val[i + 1])
              \/ /\ LevelOf(result.val[i]) = LevelOf(result.val[i + 1])
                 /\ result.val[i] < result.val[i + 1]
        /\ Cardinality(Elements(result.val)) = Len(result.val)
        /\ args = <<100000, Some(100005)>> => result.val[1] = 585

\* all_bins(100000, 100005): one bin of each level, the finest first.
AllBinsOrderedWitness ==
    /\ op = "all_bins"
    /\ args = <<100000, Some(100005)>>
    /\ result = Return(<<585, 73, 9, 1, 0>>)

\* C13: covered_region(0) returns (1, MAX_POSITION), and
\* assign_bin(1, MAX_POSITION) returns 0, the offset of the coarsest level.
RootBinIsWholeRange ==
    /\ (op = "covered_region" /\ args = <<0>>)
          => result = Return(<<1, MAX_POSITION>>)
    /\ (op = "assign_bin" /\ args = <<1, MAX_POSITION>>)
          => /\ result = Return(0)
             /\ result.val = BIN_OFFSETS[Len(BIN_OFFSETS)]

\* covered_region(0) was called; its region is assigned the bin 0 again.
RootBinWitness ==
    /\ op = "covered_region"
    /\ args = <<0>>
    /\ result.exc = "none"
    /\ assign_bin(result.val[1], result.val[2]) = Return(0)

\* The offsets strictly decrease and end at 0.
OffsetsDecreaseToZero ==
    /\ \A i \in Levels : \A j \in Levels :
          i < j => BIN_OFFSETS[i] > BIN_OFFSETS[j]
    /\ BIN_OFFSETS[Len(BIN_OFFSETS)] = 0

\* covered_region gives distinct bins of 0..MAX_BIN distinct regions.
CoveredRegionsDistinct ==
    Cardinality({CoveredRegions[b] : b \in AllBinNumbers}) = MAX_BIN + 1

\* C14: the offsets strictly decrease and end at 0; the bins range_per_level
\* yields for different levels never coincide; the levels of the widest
\* region, as all_bins lists them, are exactly 0..MAX_BIN, each once;
\* covered_region maps distinct bins to distinct regions.
BinIdentifiesLevelAndIndex ==
    /\ OffsetsDecreaseToZero
    /\ CoveredRegionsDistinct
    /\ (op = "range_per_level" /\ result.exc = "none") =>
          \A i \in 1..Len(result.val) : \A j \in 1..Len(result.val) :
              i < j => result.val[j][2] < result.val[i][1]
    /\ (op = "all_bins" /\ args = <<1, Some(MAX_POSITION)>>) =>
          /\ Elements(result.val) = AllBinNumbers
          /\ Len(result.val) = MAX_BIN + 1

\* The pairs of a region over two bins of the second level: every level
\* below the root has two bins, and no bin number is in two levels.
BinIdentifiesWitness ==
    /\ op = "range_per_level"
    /\ args = <<BinSize(2), BinSize(2) + 1>>
    /\ result = Return(<<  <<592, 593>>, <<73, 74>>, <<9, 9>>,
                           <<1, 1>>, <<0, 0>>  >>)

\* The bins of level i, taken in ascending order, cover 1..MAX_POSITION
\* without a gap and without an overlap.
LevelTiles(i) ==
    LET first == BIN_OFFSETS[i]
        last == IF i = 1 THEN MAX_BIN ELSE BIN_OFFSETS[i - 1] - 1
    IN  /\ CoveredRegions[first][1] = 1
        /\ CoveredRegions[last][2] = MAX_POSITION
        /\ \A b \in first..last :
              CoveredRegions[b][1] <= CoveredRegions[b][2]
        /\ \A b \in first..(last - 1) :
              CoveredRegions[b + 1][1] = CoveredRegions[b][2] + 1

EveryLevelTiles == \A i \in Levels : LevelTiles(i)

\* C15: on every level the regions of the bins are disjoint and their union
\* is 1..MAX_POSITION; a position p of 1..MAX_POSITION lies in exactly one
\* bin of each level, the one all_bins(p) lists for that level.
LevelsPartition ==
    /\ EveryLevelTiles
    /\ (op = "all_bins" /\ args[2] = None
            /\ ValidRegion(args[1], args[1])) =>
          /\ result.exc = "none"
          /\ Len(result.val) = Len(BIN_OFFSETS)
          /\ \A i \in Levels :
                {b \in LevelBins(i) :
                    Contains(CoveredRegions[b], args[1], args[1])}
                    = {result.val[i]}

\* all_bins(p) for the first position of the second bin of the finest level.
LevelsPartitionWitness ==
    /\ op = "all_bins"
    /\ args = <<BinSize(1) + 1, None>>
    /\ result = Return(<<586, 73, 9, 1, 0>>)

\* What the call of a frame returns or raises when it runs alone.
AloneOutcome(f) ==
    IF f.op = "range_per_level" THEN range_per_level(f.args[1], f.args[2])
    ELSE IF f.op = "assign_bin" THEN assign_bin(f.args[1], f.args[2])
    ELSE IF f.op = "all_bins" THEN all_bins(f.args[1], Some(f.args[2]))
    ELSE covered_region(f.args[1])

\* C16: however the steps of several callers interleave, a call that has
\* ended has the outcome it has when run alone, a partly consumed iterator
\* of range_per_level has given the first pairs of the list it gives alone,
\* and the module's constants are as they were set at import.
CallsDoNotInterfere ==
    /\ module = ModuleConstants
    /\ \A c \in Callers :
          /\ threads[c].pc = "returned"
                => threads[c].out = AloneOutcome(threads[c])
          /\ (threads[c].pc = "running" /\ threads[c].op = "range_per_level"
                  /\ threads[c].acc # <<>>)
                => /\ AloneOutcome(threads[c]).exc = "none"
                   /\ Len(threads[c].acc) <= Len(AloneOutcome(threads[c]).val)
                   /\ threads[c].acc =
                         SubSeq(AloneOutcome(threads[c]).val, 1,
                                Len(threads[c].acc))

\* One caller got its bin from assign_bin while another caller's iterator
\* over a different region was two pairs along.
CallsDoNotInterfereWitness ==
    /\ threads[1].pc = "returned"
    /\ threads[1].op = "assign_bin"
    /\ threads[1].out = Return(BIN_OFFSETS[2])
    /\ threads[2].pc = "running"
    /\ threads[2].op = "range_per_level"
    /\ threads[2].args = <<100000, 100005>>
    /\ Len(threads[2].acc) = 2

----------------------------------------------------------------------------
(* Properties of region-binning/bed_binning.py *)

\* The lines read so far.
ReadLines == SubSeq(bed_lines, 1, bed_pos)

\* A line with a chromosome and two integers after it.
RegionLine(parts) ==
    IF Len(parts) < 3 THEN FALSE
    ELSE parts[1] # Word("track") /\ parts[2].isint /\ parts[3].isint

\* The region a BED line (start, end) stands for: start + 1 .. end.
InRangeLine(parts) ==
    IF RegionLine(parts)
    THEN ~ExceedsRange(parts[2].n + 1, parts[3].n)
    ELSE FALSE

OutOfRangeLine(parts) ==
    IF RegionLine(parts)
    THEN ExceedsRange(parts[2].n + 1, parts[3].n)
    ELSE FALSE

BlankOrTrackLine(parts) ==
    IF parts = <<>> THEN TRUE ELSE parts[1] = Word("track")

\* One bin per region line in range, in the order of the lines.
ExpectedBins(lines) ==
    LET regions == SelectSeq(lines, InRangeLine)
    IN  [i \in 1..Len(regions) |->
            Printed("bin",
                <<assign_bin(regions[i][2].n + 1, regions[i][3].n).val>>)]

\* One message per region line out of range, with the smaller and the
\* larger end of the region and the maximum position.
ExpectedErrors(lines) ==
    LET regions == SelectSeq(lines, OutOfRangeLine)
    IN  [i \in 1..Len(regions) |->
            Printed("out of range",
                <<Min(regions[i][2].n + 1, regions[i][3].n),
                  Max(regions[i][2].n + 1, regions[i][3].n),
                  MAX_POSITION>>)]

IsBin(printed) == printed.kind = "bin"

\* C17 as stated: once a region out of range has been read, the program
\* has exited with a non-zero status, standard output holds no bin id and
\* no line after that region has been read.
OutOfRangeEndsRun ==
    \A i \in 1..bed_pos :
        OutOfRangeLine(bed_lines[i])
            => /\ bed_pc = "exited"
               /\ exit_status # 0
               /\ SelectSeq(stdout, IsBin) = <<>>
               /\ bed_pos = i

\* C17, amended: a region out of range gets its message on standard error
\* with the offending values and no bin id, the bin ids of the regions in
\* range before and after it are on standard output, and it does not end
\* the run: the program exits with a non-zero status only on a line that
\* is not a region, and with status 0 only after the last line.
OutOfRangeIsReported ==
    /\ stderr = ExpectedErrors(ReadLines)
    /\ SelectSeq(stdout, IsBin) = ExpectedBins(ReadLines)
    /\ (bed_pc = "exited" /\ exit_status # 0)
          => /\ bed_pos > 0
             /\ ~BlankOrTrackLine(bed_lines[bed_pos])
             /\ ~RegionLine(bed_lines[bed_pos])
    /\ (bed_pc = "exited" /\ exit_status = 0) => bed_pos = Len(bed_lines)

\* A region in range, one out of range and another in range have been read
\* to the end: two bin ids on standard output, one message on standard
\* error, status 0.
OutOfRangeIsReportedWitness ==
    /\ bed_lines = <<<<Word("chr1"), Number(99999), Number(100005)>>,
                     <<Word("chr1"), Number(7), Number(0)>>,
                     <<Word("chr1"), Number(BinSize(1)),
                       Number(BinSize(1) + 1)>>>>
    /\ bed_pc = "exited"
    /\ exit_status = 0
    /\ stdout = <<Printed("bin", <<BIN_OFFSETS[1]>>),
                  Printed("bin", <<BIN_OFFSETS[1] + 1>>)>>
    /\ stderr = <<Printed("out of range", <<0, 8, MAX_POSITION>>)>>

\* C18: when every line of the file is blank, a track line or a region in
\* range, standard output holds one bin id for each region line read, in
\* the order of the lines, the bin of (start, end) being
\* assign_bin(start + 1, end); nothing is written to standard error and the
\* program ends after the last line with status 0.
OneBinPerRegionLine ==
    (\A i \in 1..Len(bed_lines) :
         BlankOrTrackLine(bed_lines[i]) \/ InRangeLine(bed_lines[i]))
        => /\ stdout = ExpectedBins(ReadLines)
           /\ Len(stdout) =
                 Cardinality({i \in 1..bed_pos : RegionLine(bed_lines[i])})
           /\ stderr = <<>>
           /\ bed_pc = "exited"
                 => (exit_status = 0 /\ bed_pos = Len(bed_lines))

\* A track line and two regions read to the end: the track line gave
\* nothing, each region gave its bin.
OneBinPerRegionLineWitness ==
    /\ bed_lines = <<<<Word("track"), Word("name")>>,
                     <<Word("chr1"), Number(BinSize(1)),
                       Number(BinSize(1) + 1)>>,
                     <<Word("chr1"), Number(99999), Number(100005)>>>>
    /\ bed_pc = "exited"
    /\ stdout = <<Printed("bin", <<BIN_OFFSETS[1] + 1>>),
                  Printed("bin", <<BIN_OFFSETS[1]>>)>>

----------------------------------------------------------------------------
(* Properties of sync_paired_end_reads *)

\* The pair a header line belongs to, lines 59-60: the line up to the
\* rightmost match of sep.
pair_identifier(line) ==
    [pieces |-> SubSeq(line.pieces, 1, Len(line.pieces) - 1),
     seps |-> SubSeq(line.seps, 1, Len(line.seps) - 1)]

PairIdentifiers(file) == {pair_identifier(file[i]) : i \in 1..Len(file)}

\* A record of a pair that has a record in reads_a and one in reads_b.
InBothInputs(record) ==
    pair_identifier(record)
        \in PairIdentifiers(reads_a) \cap PairIdentifiers(reads_b)

\* C19: after the call synced_a and synced_b hold, in the original order,
\* exactly the records of reads_a and of reads_b whose pair is in both
\* files, so they are equally long and their i-th records are of the same
\* pair, and filtered_a + kept and filtered_b + kept are the numbers of
\* records of reads_a and of reads_b.
SyncedKeepsPairsInBoth ==
    sync_pc = "returned"
        => /\ synced_a = SelectSeq(reads_a, InBothInputs)
           /\ synced_b = SelectSeq(reads_b, InBothInputs)
           /\ Len(synced_a) = Len(synced_b)
           /\ \A i \in 1..Len(synced_a) :
                 i <= Len(synced_b)
                     => pair_identifier(synced_a[i])
                            = pair_identifier(synced_b[i])
           /\ filtered_a + kept = Len(reads_a)
           /\ filtered_b + kept = Len(reads_b)

----------------------------------------------------------------------------
(* Properties of create_parts *)

\* The number of variants in a VCF file.
RECURSIVE VariantsIn(_)
VariantsIn(runs) ==
    IF runs = <<>> THEN 0
    ELSE (IF Head(runs).kind = "v" THEN Head(runs).n ELSE 0)
             + VariantsIn(Tail(runs))

\* C20: when create_parts has ended, it has stopped with the fatal error
\* 'VCF file contains no variants.' if and only if the VCF file has no
\* variant line; a file with a variant is not rejected.
NoVariantsIsFatal ==
    parts_pc \in {"exited", "returned"}
        => (fatal = "VCF file contains no variants." <=> VariantsIn(vcf) = 0)

\* C21: no part written by create_parts holds more than MAX_VARIANTS
\* variant lines, however long the VCF file is.
PartsWithinMaxVariants ==
    \A i \in 1..Len(part_files) : part_files[i].variants <= MAX_VARIANTS

----------------------------------------------------------------------------
(* Properties of wait_for_result and seattle_seq_annotation *)

\* C22: between the parts and at the end, waiting in seattle_seq_annotation
\* is the number of seconds slept so far, and 'Job took too long.' is
\* reported only when the seconds slept exceed WAIT_MAX.
WaitingIsSecondsSlept ==
    /\ wait_pc \in {"caller", "done"} => waiting = slept
    /\ wait_fatal = "Job took too long." => slept > WAIT_MAX

----------------------------------------------------------------------------
(* Properties of write_bed *)

NotIgnored(line) == line.kind # "ignored"

\* The track without the lines that are ignored.
WigData == SelectSeq(wig, NotIgnored)

\* The chromosome of line i of the data: that of the last variableStep
\* line before it, None when there is none.
ChromAt(data, i) ==
    LET headers == {k \in 1..(i - 1) : data[k].kind = "variableStep"}
    IN  IF headers = {} THEN None
        ELSE Some(data[CHOOSE k \in headers : \A h \in headers : h <= k].chrom)

OfInterest(data, i) ==
    IF i \in 1..Len(data)
    THEN data[i].kind = "position" /\ data[i].interest
    ELSE FALSE

\* Line i goes on the run of line i - 1: both are positions of interest,
\* one after the other.
Continues(data, i) ==
    IF OfInterest(data, i) /\ OfInterest(data, i - 1)
    THEN data[i].position = data[i - 1].position + 1
    ELSE FALSE

\* The last line of the run that line i is in.
RunEnd(data, i) ==
    CHOOSE j \in i..Len(data) :
        /\ \A k \in (i + 1)..j : Continues(data, k)
        /\ ~Continues(data, j + 1)

\* The maximal runs of consecutive positions of interest from line i on,
\* each as a BED line.
RECURSIVE RunsFrom(_, _)
RunsFrom(data, i) ==
    IF i > Len(data) THEN <<>>
    ELSE IF OfInterest(data, i) /\ ~Continues(data, i)
         THEN <<[chrom |-> ChromAt(data, i),
                 start |-> data[i].position - 1,
                 end |-> data[RunEnd(data, i)].position]>>
                  \o RunsFrom(data, i + 1)
         ELSE RunsFrom(data, i + 1)

\* The chromosomes and positions a track can name.
WigChroms == {None} \cup {Some(wig[i].chrom) : i \in 1..Len(wig)}

WigPositions == {wig[i].position : i \in 1..Len(wig)}

\* The position lines of a chromosome and position.
LinesAt(data, chromosome, pos) ==
    {i \in 1..Len(data) :
        /\ data[i].kind = "position"
        /\ data[i].position = pos
        /\ ChromAt(data, i) = chromosome}

\* The emitted regions that a position of a chromosome lies in.
RegionsAt(chromosome, pos) ==
    {k \in 1..Len(bed) :
        /\ bed[k].chrom = chromosome
        /\ bed[k].start < pos
        /\ pos <= bed[k].end}

\* Every position lies in one emitted region if the predicate holds for
\* it and in none if not.
EachPositionOnce ==
    \A chromosome \in WigChroms, pos \in WigPositions \ {0} :
        Cardinality(RegionsAt(chromosome, pos)) =
            IF \E i \in LinesAt(WigData, chromosome, pos) :
                   WigData[i].interest
            THEN 1 ELSE 0

\* The track has headers with a chromosome and position lines only,
\* besides the lines that are ignored.
WellFormedTrack ==
    \A i \in 1..Len(wig) :
        /\ wig[i].kind # "unreadable"
        /\ wig[i] # VariableStepWithoutChrom

\* No position of a chromosome is listed twice.
PositionsListedOnce ==
    \A chromosome \in WigChroms, pos \in WigPositions :
        Cardinality(LinesAt(WigData, chromosome, pos)) <= 1

\* C23 as stated: for any sequence of variableStep headers and position
\* lines, the regions written are the maximal runs of consecutive positions
\* of interest, zero-based and open-ended, and every position lies in
\* exactly one of them if the predicate holds for it and in none if not.
RunsEmittedForAnyTrack ==
    (wig_pc = "returned" /\ WellFormedTrack)
        => /\ bed = RunsFrom(WigData, 1)
           /\ EachPositionOnce

\* C23, amended: the regions written are the maximal runs of consecutive
\* positions of interest for any such sequence; every position lies in
\* exactly one of them if the predicate holds for it and in none if not,
\* provided no position of a chromosome is listed twice.
RunsEmitted ==
    (wig_pc = "returned" /\ WellFormedTrack)
        => /\ bed = RunsFrom(WigData, 1)
           /\ PositionsListedOnce => EachPositionOnce

\* Position 1 of chr1 and position 2 of chr2 are of interest: two
\* regions, chr1 0-1 and chr2 1-2, although the positions are consecutive.
RunsEmittedWitness ==
    /\ wig = <<VariableStep("chr1"), PositionLine(1, TRUE),
               VariableStep("chr2"), PositionLine(2, TRUE)>>
    /\ wig_pc = "returned"
    /\ bed = <<[chrom |-> Some("chr1"), start |-> 0, end |-> 1],
               [chrom |-> Some("chr2"), start |-> 1, end |-> 2]>>

----------------------------------------------------------------------------
(* Properties of calculate_coverage *)

\* The lines of the pileup file with a position from first to last.
LinesWithin(first, last) ==
    {i \in 1..Len(pileup) :
        first <= pileup[i].position /\ pileup[i].position <= last}

\* The summed coverage of a set of lines of the pileup file.
RECURSIVE SummedCoverage(_)
SummedCoverage(indices) ==
    IF indices = {} THEN 0
    ELSE LET i == CHOOSE k \in indices : TRUE
         IN  pileup[i].coverage + SummedCoverage(indices \ {i})

\* The least and the greatest coverage of a set of lines, with the values
\* that calculate_coverage starts from.
LeastCoverage(indices) ==
    IF \E i \in indices : pileup[i].coverage < INITIAL_MINIMUM
    THEN CHOOSE c \in {pileup[i].coverage : i \in indices} :
             \A i \in indices : c <= pileup[i].coverage
    ELSE INITIAL_MINIMUM

GreatestCoverage(indices) ==
    IF \E i \in indices : pileup[i].coverage > 0
    THEN CHOOSE c \in {pileup[i].coverage : i \in indices} :
             \A i \in indices : c >= pileup[i].coverage
    ELSE 0

\* C24: when first_position and last_position are given, what is printed
\* has region_size = last_position - first_position + 1, and the mean,
\* minimum and maximum coverage of the lines with a position from
\* first_position to last_position only.
RegionLimitsCalculation ==
    (pileup_pc = "ended" /\ last_position # None
            /\ coverage_json.exc = "none")
        => LET within == LinesWithin(first_position[1], last_position[1])
               size == last_position[1] - first_position[1] + 1
           IN  /\ coverage_json.val.region_size = size
               /\ coverage_json.val.mean_coverage
                     = floordiv(SummedCoverage(within), size)
               /\ coverage_json.val.minimum_coverage = LeastCoverage(within)
               /\ coverage_json.val.maximum_coverage
                     = GreatestCoverage(within)

\* The region of the calculation once the file is read: from
\* first_position to last_position, or to the last position read.
RegionSizeAtEnd ==
    (IF last_position # None THEN last_position[1] ELSE pileup_position[1])
        - first_position[1] + 1

\* The number of positions of a group of a region, groups counted from 0.
PositionsInGroup(size, group) ==
    IF size - group * GROUP_SIZE < GROUP_SIZE
    THEN size - group * GROUP_SIZE
    ELSE GROUP_SIZE

\* The lines of a group.
LinesInGroup(group) ==
    {i \in 1..Len(pileup) :
        floordiv(pileup[i].position - first_position[1], GROUP_SIZE) = group}

\* C26: for every region size >= 1 calculate_coverage ends without an
\* arithmetic error, and grouped_coverage has ceil(region_size / GROUP_SIZE)
\* entries, each the floor of the summed coverage of the group divided by
\* the number of positions in the group.
GroupedCoverageForEverySize ==
    (/\ pileup_pc = "ended"
     /\ first_position # None
     /\ (last_position # None \/ pileup_position # None))
        => (RegionSizeAtEnd >= 1
              => /\ coverage_json.exc = "none"
                 /\ Len(coverage_json.val.grouped_coverage)
                       = (RegionSizeAtEnd + GROUP_SIZE - 1) \div GROUP_SIZE
                 /\ \A g \in 1..Len(coverage_json.val.grouped_coverage) :
                       coverage_json.val.grouped_coverage[g]
                           = floordiv(SummedCoverage(LinesInGroup(g - 1)),
                                 PositionsInGroup(RegionSizeAtEnd, g - 1)))

----------------------------------------------------------------------------
(* Properties of process_bam *)

\* The BAM file is sorted by read name: the reads of a name are together.
SortedByName ==
    \A i, j, k \in 1..Len(bam) :
        (i < j /\ j < k /\ bam[i].qname = bam[k].qname)
            => bam[j].qname = bam[i].qname

\* The names in a FASTQ file, in the order written.
NamesIn(fastq) == [i \in 1..Len(fastq) |-> fastq[i].name]

NoNameTwice(names) ==
    \A i, j \in 1..Len(names) : names[i] = names[j] => i = j

\* The name has a read that is, or is not, the first of its pair.
HasSide(read_name, is_read1) ==
    \E i \in 1..Len(bam) :
        bam[i].qname = read_name /\ bam[i].is_read1 = is_read1

\* C25: for a BAM file sorted by read name, no name is written twice to
\* the left file or twice to the right file; the left file has the names
\* with a first read and the right file those with a second read, and with
\* sync_pairs both have the names with both, so the same names in the same
\* order.
DuplicatesWrittenOnce ==
    (bam_pc = "returned" /\ SortedByName)
        => /\ NoNameTwice(NamesIn(left_file))
           /\ NoNameTwice(NamesIn(right_file))
           /\ \A i \in 1..Len(left_file) : left_file[i].index = 1
           /\ \A i \in 1..Len(right_file) : right_file[i].index = 2
           /\ \A i \in 1..Len(bam) :
                 /\ (\E k \in 1..Len(left_file) :
                        left_file[k].name = bam[i].qname)
                       <=> /\ HasSide(bam[i].qname, TRUE)
                           /\ sync_pairs => HasSide(bam[i].qname, FALSE)
                 /\ (\E k \in 1..Len(right_file) :
                        right_file[k].name = bam[i].qname)
                       <=> /\ HasSide(bam[i].qname, FALSE)
                           /\ sync_pairs => HasSide(bam[i].qname, TRUE)
           /\ sync_pairs => NamesIn(left_file) = NamesIn(right_file)

\* With sync_pairs, r1 has its first read twice and its second read once,
\* r2 has only a first read: r1 is written once to each file, r2 to none.
DuplicatesWrittenOnceWitness ==
    /\ bam = <<Read("r1", TRUE), Read("r1", TRUE), Read("r1", FALSE),
               Read("r2", TRUE)>>
    /\ sync_pairs
    /\ bam_pc = "returned"
    /\ left_file = <<[name |-> "r1", index |-> 1]>>
    /\ right_file = <<[name |-> "r1", index |-> 2]>>

----------------------------------------------------------------------------
(* Nesting of the levels of region_binning.py *)

Coarsest == Len(BIN_OFFSETS)

\* The bin one level up that the claim names for bin b of a level below
\* the coarsest.
ParentBin(b) ==
    BIN_OFFSETS[LevelOf(b) + 1]
        + Shr(b - BIN_OFFSETS[LevelOf(b)], SHIFT_NEXT)

\* The bins of level i whose region contains region.
BinsAround(region, i) ==
    {c \in LevelBins(i) :
        Contains(CoveredRegions[c], region[1], region[2])}

\* The bins of level i whose region lies inside region.
BinsInside(region, i) ==
    {b \in LevelBins(i) :
        Contains(region, CoveredRegions[b][1], CoveredRegions[b][2])}

\* The regions of the bins lowest..highest lie end to end from the start
\* to the end of region.
Partition(lowest, highest, region) ==
    /\ CoveredRegions[lowest][1] = region[1]
    /\ CoveredRegions[highest][2] = region[2]
    /\ \A b \in lowest..(highest - 1) :
          CoveredRegions[b + 1][1] = CoveredRegions[b][2] + 1

\* C27: the levels are nested: the region that covered_region returns for
\* a bin b below the coarsest level lies inside the region of exactly one
\* bin of the next level, BIN_OFFSETS[i+1] + ((b - BIN_OFFSETS[i]) >>
\* SHIFT_NEXT); the region it returns for a bin above the finest level
\* contains exactly 2^SHIFT_NEXT = 8 bins of the level below, bins that
\* follow each other and whose regions partition it; and the bins that
\* all_bins lists for one position are each the parent of the one before.
LevelsNested ==
    /\ (op = "covered_region" /\ args[1] \in BIN_OFFSETS[Coarsest - 1]..MAX_BIN)
          => /\ result.exc = "none"
             /\ BinsAround(result.val, LevelOf(args[1]) + 1)
                   = {ParentBin(args[1])}
    /\ (op = "covered_region" /\ args[1] \in 0..(BIN_OFFSETS[1] - 1))
          => /\ result.exc = "none"
             /\ LET inside == BinsInside(result.val, LevelOf(args[1]) - 1)
                    lowest == CHOOSE b \in inside : \A o \in inside : b <= o
                IN  /\ Cardinality(inside) = 2 ^ SHIFT_NEXT
                    /\ inside = lowest..(lowest + 2 ^ SHIFT_NEXT - 1)
                    /\ Partition(lowest, lowest + 2 ^ SHIFT_NEXT - 1,
                                 result.val)
                    /\ \A b \in inside : ParentBin(b) = args[1]
    /\ (op = "all_bins" /\ args[2] = None /\ ValidRegion(args[1], args[1]))
          => /\ result.exc = "none"
             /\ \A i \in 1..(Len(result.val) - 1) :
                   result.val[i + 1] = ParentBin(result.val[i])

\* covered_region(586), the second bin of the finest level, returned
\* 131073-262144, inside 1-1048576, the region of its parent, bin 73.
LevelsNestedWitness ==
    /\ op = "covered_region"
    /\ args = <<BIN_OFFSETS[1] + 1>>
    /\ result = Return(<<BinSize(1) + 1, 2 * BinSize(1)>>)
    /\ BinsAround(result.val, 2) = {BIN_OFFSETS[2]}
    /\ CoveredRegions[BIN_OFFSETS[2]] = <<1, BinSize(2)>>

====
